---- MODULE Spec2Model ----
(***************************************************************************)
(* State-machine model of the foods-tool-ui view-models:                   *)
(*   - FoodsComponent        (src/unnamed/part_000, lines 27-648)          *)
(*   - ImageUploadComponent  (src/src/app/image-upload/                    *)
(*                            image-upload.component.ts, lines 20-418)     *)
(* Every handler is one action; an HTTP call is a request in flight whose  *)
(* response (next / error) is delivered by a later action.                 *)
(*                                                                         *)
(* JavaScript values are tagged records, so that null, undefined, numbers  *)
(* and strings stay distinct and comparable.  Strings that the code takes  *)
(* apart (the query, a description) are sequences of one-character         *)
(* strings.  Nutrient source values and the serving multiplicand are       *)
(* exact decimals in hundredths.                                           *)
(***************************************************************************)
EXTENDS Integers, Sequences, FiniteSets, TLC

(***************************************************************************)
(* Bounds of the model.                                                    *)
(***************************************************************************)
MaxResults == 2      \* longest backend result list
MaxPending == 2      \* most search requests outstanding at once
MaxSaveCalls == 1    \* most metadata-save requests issued in one behaviour
MaxRuns == 1         \* most upload runs in flight when uploadImages is called

(***************************************************************************)
(* JavaScript values.                                                      *)
(***************************************************************************)
NULL == [k |-> "null"]
UNDEFINED == [k |-> "undefined"]
Num(n) == [k |-> "number", v |-> n]
Str(s) == [k |-> "string", v |-> s]

\* a ?? b
Coalesce(a, b) == IF a = NULL \/ a = UNDEFINED THEN b ELSE a

\* truthiness of a tagged value (objects are truthy)
Truthy(a) ==
  CASE a = NULL -> FALSE
    [] a = UNDEFINED -> FALSE
    [] "k" \in DOMAIN a /\ a.k = "number" -> a.v # 0
    [] "k" \in DOMAIN a /\ a.k = "string" -> a.v # ""
    [] OTHER -> TRUE

Min(a, b) == IF a < b THEN a ELSE b
Max(a, b) == IF a > b THEN a ELSE b

(***************************************************************************)
(* Strings as sequences of characters.                                     *)
(***************************************************************************)
\* String.prototype.trim
RECURSIVE TrimLeft(_)
TrimLeft(s) == IF s # <<>> /\ Head(s) = " " THEN TrimLeft(Tail(s)) ELSE s
RECURSIVE TrimRight(_)
TrimRight(s) ==
  IF s # <<>> /\ s[Len(s)] = " " THEN TrimRight(SubSeq(s, 1, Len(s) - 1)) ELSE s
Trim(s) == TrimRight(TrimLeft(s))

\* String.prototype.toLowerCase on the model's alphabet
ToLowerCase(s) ==
  [i \in 1..Len(s) |->
     CASE s[i] = "A" -> "a"
       [] s[i] = "B" -> "b"
       [] s[i] = "P" -> "p"
       [] OTHER -> s[i]]

\* String.prototype.includes
Includes(s, sub) ==
  \E i \in 0..(Len(s) - Len(sub)) : SubSeq(s, i + 1, i + Len(sub)) = sub

(***************************************************************************)
(* Food records (interface Food) the backend can return.                   *)
(***************************************************************************)
Facts(p, f, c, k, g) ==
  [proteinG |-> p, totalFatG |-> f, totalCarbohydrateG |-> c, calories |-> k,
   servingSizeG |-> g]

MkFood(id, d, sd, gi, gl, nf, m) ==
  [id |-> id, description |-> d, shortDescription |-> sd, glycemicIndex |-> gi,
   glycemicLoad |-> gl, nutritionFacts |-> nf, servingSizeMultiplicand |-> m]

FoodApple ==
  MkFood(Num(1), Str(<<"A", "p">>), Str("a"), Num(55), UNDEFINED,
         Facts(Num(250), Num(1234), Num(2000), Num(5200), Num(3000)), Num(30))
FoodBanana ==
  MkFood(Num(2), Str(<<"b", "a">>), UNDEFINED, NULL, Num(7),
         Facts(UNDEFINED, Num(45), UNDEFINED, Num(8950), UNDEFINED), UNDEFINED)
FoodNoId ==
  MkFood(UNDEFINED, UNDEFINED, UNDEFINED, UNDEFINED, UNDEFINED, UNDEFINED, UNDEFINED)

Catalogue == {FoodApple, FoodBanana, FoodNoId}

\* result lists of the backend: no record twice, at most n records
InjSeqs(S, n) ==
  UNION {{s \in [1..m -> S] : \A i, j \in 1..m : i # j => s[i] # s[j]} : m \in 0..n}

\* The three response shapes of the search endpoints.
Wrapped(s) == [shape |-> "wrapped", count |-> Len(s), foods |-> s]
Bare(s) == [shape |-> "array", items |-> s]
Single(f) == [shape |-> "single", obj |-> f]

SearchResults ==
  {Wrapped(s) : s \in InjSeqs(Catalogue, MaxResults)}
    \cup {Bare(s) : s \in InjSeqs(Catalogue, 1)}
    \cup {Single(f) : f \in Catalogue}

\* HttpErrorResponse: status and whether the body carries a message
HttpError(status, body) == [status |-> status, hasBodyMessage |-> body]
HttpErrors ==
  {HttpError(0, FALSE), HttpError(404, FALSE), HttpError(500, FALSE),
   HttpError(400, TRUE), HttpError(400, FALSE), HttpError(503, FALSE),
   HttpError(302, FALSE)}

(***************************************************************************)
(* Inputs of the user.                                                     *)
(***************************************************************************)
Queries == {<<>>, <<"a", " ">>, <<" ", "A", "P">>}

(***************************************************************************)
(* State.                                                                  *)
(***************************************************************************)
VARIABLES
  \* FoodsComponent fields
  searchControl, limitControl, yehApprovedControl,
  foods, selectedFood, selectedIndex, selectedFoodIds,
  isLoading, showPerServing, nutrientTableData,
  shortDescriptionControl, glycemicIndexControl, glycemicLoadControl,
  isSavingMetadata, originalMetadata,
  \* collaborators of FoodsComponent
  snackBar,        \* the notification opened last
  searchReqs,      \* search requests in flight, in the order issued
  saveReqs,        \* metadata-save requests in flight, in the order issued
  ev,              \* the handler that ran last, with its inputs
  saveCalls        \* number of metadata-save requests issued so far

formVars == <<shortDescriptionControl, glycemicIndexControl, glycemicLoadControl>>
focusVars == <<foods, selectedFood, selectedIndex>>
searchInputVars == <<searchControl, limitControl, yehApprovedControl>>
foodsVars ==
  <<searchControl, limitControl, yehApprovedControl, foods, selectedFood,
    selectedIndex, selectedFoodIds, isLoading, showPerServing, nutrientTableData,
    shortDescriptionControl, glycemicIndexControl, glycemicLoadControl,
    isSavingMetadata, originalMetadata, searchReqs, saveReqs>>

VARIABLES
  \* ImageUploadComponent inputs and fields
  foodId, existingNutritionImageUrl, existingProductImageUrl,
  isUploading, nutritionImageFile, productImageFile, ingredientsImageFile,
  isDraggingNutrition, isDraggingProduct, isDraggingIngredients,
  nutritionImagePreview, productImagePreview, ingredientsImagePreview,
  \* collaborators of ImageUploadComponent
  readers,         \* FileReader loads in flight
  uploadRuns,      \* uploadImages calls suspended at an await
  emitted          \* events emitted to the parent by the run that ended last

slotVars ==
  <<nutritionImageFile, productImageFile, ingredientsImageFile,
    nutritionImagePreview, productImagePreview, ingredientsImagePreview>>
dragVars == <<isDraggingNutrition, isDraggingProduct, isDraggingIngredients>>
inputVars == <<foodId, existingNutritionImageUrl, existingProductImageUrl>>
uploadVars ==
  <<foodId, existingNutritionImageUrl, existingProductImageUrl, isUploading,
    nutritionImageFile, productImageFile, ingredientsImageFile,
    isDraggingNutrition, isDraggingProduct, isDraggingIngredients,
    nutritionImagePreview, productImagePreview, ingredientsImagePreview,
    readers, uploadRuns, emitted>>

vars == <<foodsVars, uploadVars, snackBar, ev, saveCalls>>

(***************************************************************************)
(* MatSnackBar.open: the notification shown.                               *)
(***************************************************************************)
Toast(text) == [message |-> text]
ToastN(text, n) == [message |-> text, n |-> n]
ToastList(text, items) == [message |-> text, items |-> items]
NoToast == [none |-> TRUE]

(***************************************************************************)
(* FoodsComponent: pure helpers.                                           *)
(***************************************************************************)
\* handleError: the message chosen by HTTP status
handleError(error, context) ==
  IF error.status = 0
  THEN Toast("Unable to connect to server. Please check your connection.")
  ELSE IF error.status = 404
  THEN Toast("Food not found. Try a different search term.")
  ELSE IF error.status = 500
  THEN Toast("Server error occurred. Please try again later.")
  ELSE IF error.status >= 400 /\ error.status < 500
  THEN (IF error.hasBodyMessage THEN Toast("error.error.message")
        ELSE Toast("Request failed: statusText"))
  ELSE IF error.status >= 500
  THEN Toast("Server error. Our team has been notified.")
  ELSE [message |-> "context: error.message", context |-> context]

\* Math.round(x) for x = num / den, den > 0: floor(x + 0.5)
\* a rounding that truncates
RoundDown(num, den) == num \div den

Round(num, den) == (2 * num + den) \div (2 * den)

\* getNutrients: values of grams in tenths, calories in units
getNutrients(food, perServing) ==
  IF food = NULL \/ ~Truthy(food.nutritionFacts) THEN <<>>
  ELSE
    LET nf == food.nutritionFacts
        \* food.servingSizeMultiplicand || 1, in hundredths
        multiplier ==
          IF perServing
          THEN IF Truthy(food.servingSizeMultiplicand)
               THEN food.servingSizeMultiplicand.v ELSE 100
          ELSE 100
        IsNumber(x) == x.k = "number"
        Gram(label, x) ==
          IF IsNumber(x)
          THEN <<[label |-> label, value |-> Round(x.v * multiplier, 1000),
                  per |-> 10, unit |-> "g"]>>
          ELSE <<>>
        Kcal(x) ==
          IF IsNumber(x)
          THEN <<[label |-> "Calories", value |-> Round(x.v * multiplier, 10000),
                  per |-> 1, unit |-> "kcal"]>>
          ELSE <<>>
    IN Gram("Protein", nf.proteinG) \o Gram("Fat", nf.totalFatG)
         \o Gram("Carbs", nf.totalCarbohydrateG) \o Kcal(nf.calories)

\* the three metadata fields of a record, absent as null
MetadataOf(food) ==
  [shortDescription |-> Coalesce(food.shortDescription, NULL),
   glycemicIndex |-> Coalesce(food.glycemicIndex, NULL),
   glycemicLoad |-> Coalesce(food.glycemicLoad, NULL)]

NoMetadata ==
  [shortDescription |-> NULL, glycemicIndex |-> NULL, glycemicLoad |-> NULL]

\* the current values of the three form controls
FormValues ==
  [shortDescription |-> shortDescriptionControl,
   glycemicIndex |-> glycemicIndexControl,
   glycemicLoad |-> glycemicLoadControl]

MetadataFields == {"shortDescription", "glycemicIndex", "glycemicLoad"}

hasMetadataChanges ==
  \/ shortDescriptionControl # originalMetadata.shortDescription
  \/ glycemicIndexControl # originalMetadata.glycemicIndex
  \/ glycemicLoadControl # originalMetadata.glycemicLoad

\* an update that overlooks the two glycemic fields
BuildUpdateShortDescriptionOnly(form, original) ==
  [f \in {g \in {"shortDescription"} : form[g] # original[g]} |->
     IF form[f] = Str("") THEN NULL ELSE form[f]]

\* an update that sends the empty string as it is
BuildUpdateKeepEmpty(form, original) ==
  [f \in {g \in MetadataFields : form[g] # original[g]} |-> form[f]]

\* the FoodMetadataUpdate built by saveMetadata: only the changed fields
BuildUpdate(form, original) ==
  [f \in {g \in MetadataFields : form[g] # original[g]} |->
     IF f = "shortDescription" /\ form[f] = Str("") THEN NULL ELSE form[f]]

\* selectedFood?.id is truthy
HasId(food) == food # NULL /\ Truthy(food.id)

\* normalisation of the raw search response to a list of records
NormalizeResults(results) ==
  CASE results.shape = "wrapped" -> results.foods
    [] results.shape = "array" -> results.items
    [] OTHER -> <<results.obj>>

RECURSIVE SelectSeq2(_, _)
\* Array.prototype.filter with the description filter of performSearch
SelectSeq2(s, lowerQuery) ==
  IF s = <<>> THEN <<>>
  ELSE LET f == Head(s)
           keep == f.description # UNDEFINED
                     /\ Includes(ToLowerCase(f.description.v), lowerQuery)
       IN (IF keep THEN <<f>> ELSE <<>>) \o SelectSeq2(Tail(s), lowerQuery)

\* a shown list that applies the description filter to regular searches too
ShownFoodsFilterAlways(req, results) ==
  IF req.query # <<>>
  THEN SelectSeq2(NormalizeResults(results), ToLowerCase(req.query))
  ELSE NormalizeResults(results)

\* the list shown for a response to a request
ShownFoods(req, results) ==
  IF req.isYehApproved /\ req.query # <<>>
  THEN SelectSeq2(NormalizeResults(results), ToLowerCase(req.query))
  ELSE NormalizeResults(results)

\* Array.prototype.findIndex(f => f.id === id), 0-based, -1 when none
FindIndexById(list, id) ==
  IF \E i \in 1..Len(list) : list[i].id = id
  THEN (CHOOSE i \in 1..Len(list) :
          list[i].id = id /\ \A j \in 1..(i - 1) : list[j].id # id) - 1
  ELSE -1

RemoveAt(s, i) == SubSeq(s, 1, i - 1) \o SubSeq(s, i + 1, Len(s))

\* the record the backend returns for a PATCH: the update applied to a record
ApplyUpdate(food, update) ==
  [f \in DOMAIN food |-> IF f \in DOMAIN update THEN update[f] ELSE food[f]]

\* PATCH /foods/{id}: the update applied to the record the client sent it for
PatchResponses(req) == {ApplyUpdate(req.base, req.update)}

(***************************************************************************)
(* Initial state: the two components as constructed.                       *)
(***************************************************************************)
InitFoods ==
  /\ searchControl = <<>>
  /\ limitControl = Num(50)
  /\ yehApprovedControl = FALSE
  /\ foods = <<>>
  /\ selectedFood = NULL
  /\ selectedIndex = 0
  /\ selectedFoodIds = <<>>
  /\ isLoading = FALSE
  /\ showPerServing = TRUE
  /\ nutrientTableData = <<>>
  /\ shortDescriptionControl = NULL
  /\ glycemicIndexControl = NULL
  /\ glycemicLoadControl = NULL
  /\ isSavingMetadata = FALSE
  /\ originalMetadata = NoMetadata
  /\ searchReqs = <<>>
  /\ saveReqs = <<>>

InitUpload ==
  /\ foodId = NULL
  /\ existingNutritionImageUrl = NULL
  /\ existingProductImageUrl = NULL
  /\ isUploading = FALSE
  /\ nutritionImageFile = NULL
  /\ productImageFile = NULL
  /\ ingredientsImageFile = NULL
  /\ isDraggingNutrition = FALSE
  /\ isDraggingProduct = FALSE
  /\ isDraggingIngredients = FALSE
  /\ nutritionImagePreview = NULL
  /\ productImagePreview = NULL
  /\ ingredientsImagePreview = NULL
  /\ readers = {}
  /\ uploadRuns = <<>>
  /\ emitted = <<>>

Init ==
  /\ InitFoods
  /\ InitUpload
  /\ snackBar = NoToast
  /\ ev = [kind |-> "init"]
  /\ saveCalls = 0

(***************************************************************************)
(* FoodsComponent: state changes shared by several handlers.               *)
(***************************************************************************)
\* a populate that fills the form but keeps the previous snapshot
populateMetadataFieldsKeepSnapshot(food) ==
  /\ shortDescriptionControl' = Coalesce(food.shortDescription, NULL)
  /\ glycemicIndexControl' = Coalesce(food.glycemicIndex, NULL)
  /\ glycemicLoadControl' = Coalesce(food.glycemicLoad, NULL)
  /\ UNCHANGED originalMetadata

populateMetadataFields(food) ==
  /\ shortDescriptionControl' = Coalesce(food.shortDescription, NULL)
  /\ glycemicIndexControl' = Coalesce(food.glycemicIndex, NULL)
  /\ glycemicLoadControl' = Coalesce(food.glycemicLoad, NULL)
  /\ originalMetadata' = MetadataOf(food)

\* a clear that forgets the snapshot
clearMetadataFieldsKeepSnapshot ==
  /\ shortDescriptionControl' = NULL
  /\ glycemicIndexControl' = NULL
  /\ glycemicLoadControl' = NULL
  /\ UNCHANGED originalMetadata

clearMetadataFields ==
  /\ shortDescriptionControl' = NULL
  /\ glycemicIndexControl' = NULL
  /\ glycemicLoadControl' = NULL
  /\ originalMetadata' = NoMetadata

\* updateNutrientTableData, run after selectedFood was assigned `food`
updateNutrientTableData(food, perServing) ==
  nutrientTableData' = getNutrients(food, perServing)

\* the body of onFoodSelected for an index in range
SelectIndex(index) ==
  /\ selectedIndex' = index
  /\ selectedFood' = foods[index + 1]
  /\ populateMetadataFields(foods[index + 1])
  /\ updateNutrientTableData(foods[index + 1], showPerServing)

(***************************************************************************)
(* FoodsComponent: the search inputs.                                      *)
(***************************************************************************)
SetQuery(q) ==
  /\ searchControl' = q
  /\ ev' = [kind |-> "setQuery"]
  /\ UNCHANGED <<limitControl, yehApprovedControl, focusVars, selectedFoodIds,
                 isLoading, showPerServing, nutrientTableData, formVars,
                 isSavingMetadata, originalMetadata, searchReqs, saveReqs,
                 snackBar, uploadVars, saveCalls>>

SetYehApproved(b) ==
  /\ yehApprovedControl' = b
  /\ ev' = [kind |-> "onYehApprovedChange"]
  /\ UNCHANGED <<searchControl, limitControl, focusVars, selectedFoodIds,
                 isLoading, showPerServing, nutrientTableData, formVars,
                 isSavingMetadata, originalMetadata, searchReqs, saveReqs,
                 snackBar, uploadVars, saveCalls>>

\* the user edits the result-limit field
SetLimit(v) ==
  /\ limitControl' = v
  /\ ev' = [kind |-> "setLimit"]
  /\ UNCHANGED <<searchControl, yehApprovedControl, focusVars, selectedFoodIds,
                 isLoading, showPerServing, nutrientTableData, formVars,
                 isSavingMetadata, originalMetadata, searchReqs, saveReqs,
                 snackBar, uploadVars, saveCalls>>

MAX_LIMIT == 200

setMaxLimit ==
  /\ limitControl' = Num(MAX_LIMIT)
  /\ ev' = [kind |-> "setMaxLimit"]
  /\ UNCHANGED <<searchControl, yehApprovedControl, focusVars, selectedFoodIds,
                 isLoading, showPerServing, nutrientTableData, formVars,
                 isSavingMetadata, originalMetadata, searchReqs, saveReqs,
                 snackBar, uploadVars, saveCalls>>

(***************************************************************************)
(* FoodsComponent.performSearch: the call, and its two callbacks.          *)
(***************************************************************************)
\* a performSearch that measures the query before trimming it
performSearchUntrimmed ==
  LET query == Trim(searchControl)
      isYehApproved == yehApprovedControl
      limit == Coalesce(limitControl, Num(50))
  IN IF ~isYehApproved /\ Len(searchControl) < 2
     THEN /\ ev' = [kind |-> "performSearch", issued |-> FALSE]
          /\ UNCHANGED <<foodsVars, snackBar, uploadVars, saveCalls>>
     ELSE /\ Len(searchReqs) < MaxPending
          /\ isLoading' = TRUE
          /\ searchReqs' =
               Append(searchReqs,
                      [query |-> query, isYehApproved |-> isYehApproved,
                       limit |-> limit, overtaken |-> FALSE])
          /\ ev' = [kind |-> "performSearch", issued |-> TRUE,
                    endpoint |-> IF isYehApproved THEN "searchYehApprovedFoods"
                                 ELSE "searchFoods",
                    query |-> query, limit |-> limit]
          /\ UNCHANGED <<searchInputVars, focusVars, selectedFoodIds,
                         showPerServing, nutrientTableData, formVars,
                         isSavingMetadata, originalMetadata, saveReqs, snackBar,
                         uploadVars, saveCalls>>

performSearch ==
  LET query == Trim(searchControl)
      isYehApproved == yehApprovedControl
      limit == Coalesce(limitControl, Num(50))
  IN IF ~isYehApproved /\ Len(query) < 2
     THEN /\ ev' = [kind |-> "performSearch", issued |-> FALSE]
          /\ UNCHANGED <<foodsVars, snackBar, uploadVars, saveCalls>>
     ELSE /\ Len(searchReqs) < MaxPending
          /\ isLoading' = TRUE
          /\ searchReqs' =
               Append(searchReqs,
                      [query |-> query, isYehApproved |-> isYehApproved,
                       limit |-> limit, overtaken |-> FALSE])
          /\ ev' = [kind |-> "performSearch", issued |-> TRUE,
                    endpoint |-> IF isYehApproved THEN "searchYehApprovedFoods"
                                 ELSE "searchFoods",
                    query |-> query, limit |-> limit]
          /\ UNCHANGED <<searchInputVars, focusVars, selectedFoodIds,
                         showPerServing, nutrientTableData, formVars,
                         isSavingMetadata, originalMetadata, saveReqs, snackBar,
                         uploadVars, saveCalls>>

\* the requests left in flight once request i is answered; a request issued
\* before i and still unanswered has been overtaken
AfterAnswer(reqs, i) ==
  RemoveAt([j \in DOMAIN reqs |->
              IF j < i THEN [reqs[j] EXCEPT !.overtaken = TRUE] ELSE reqs[j]], i)

\* a next callback that leaves the requested limit in the result-count field
SearchNextEffectsKeepLimit(req, results) ==
  LET foodsArray == ShownFoods(req, results)
      returnedCount == Len(foodsArray)
  IN /\ foods' = foodsArray
     /\ limitControl' = req.limit
     /\ snackBar' = IF returnedCount = 0
                    THEN ToastN("No foods found. Count: ", returnedCount)
                    ELSE ToastN("Foods returned: ", returnedCount)
     /\ IF Len(foodsArray) > 0
        THEN /\ selectedIndex' = 0
             /\ selectedFood' = foodsArray[1]
             /\ populateMetadataFields(foodsArray[1])
             /\ updateNutrientTableData(foodsArray[1], showPerServing)
        ELSE /\ selectedFood' = NULL
             /\ selectedIndex' = -1
             /\ clearMetadataFields
             /\ nutrientTableData' = <<>>
     /\ isLoading' = FALSE

\* the state changes of the next callback of performSearch, for the request
\* req that captured query and isYehApproved, and the raw response
SearchNextEffects(req, results) ==
  LET foodsArray == ShownFoods(req, results)
      returnedCount == Len(foodsArray)
  IN /\ foods' = foodsArray
     /\ limitControl' = Num(returnedCount)
     /\ snackBar' = IF returnedCount = 0
                    THEN ToastN("No foods found. Count: ", returnedCount)
                    ELSE ToastN("Foods returned: ", returnedCount)
     /\ IF Len(foodsArray) > 0
        THEN /\ selectedIndex' = 0
             /\ selectedFood' = foodsArray[1]
             /\ populateMetadataFields(foodsArray[1])
             /\ updateNutrientTableData(foodsArray[1], showPerServing)
        ELSE /\ selectedFood' = NULL
             /\ selectedIndex' = -1
             /\ clearMetadataFields
             /\ nutrientTableData' = <<>>
     /\ isLoading' = FALSE

\* a sequence guard the code does not have: the response to a request that
\* a later request overtook is dropped
SearchNextIfLatest(i, results) ==
  /\ i \in DOMAIN searchReqs
  /\ IF searchReqs[i].overtaken
     THEN UNCHANGED <<foods, limitControl, snackBar, selectedIndex, selectedFood,
                      formVars, originalMetadata, nutrientTableData, isLoading>>
     ELSE SearchNextEffects(searchReqs[i], results)
  /\ searchReqs' = AfterAnswer(searchReqs, i)
  /\ ev' = [kind |-> "searchNext", req |-> searchReqs[i], results |-> results]
  /\ UNCHANGED <<searchControl, yehApprovedControl, selectedFoodIds,
                 showPerServing, isSavingMetadata, saveReqs, uploadVars, saveCalls>>

\* next: the response to request i is delivered to the callback
SearchNext(i, results) ==
  /\ i \in DOMAIN searchReqs
  /\ SearchNextEffects(searchReqs[i], results)
  /\ searchReqs' = AfterAnswer(searchReqs, i)
  /\ ev' = [kind |-> "searchNext", req |-> searchReqs[i], results |-> results]
  /\ UNCHANGED <<searchControl, yehApprovedControl, selectedFoodIds,
                 showPerServing, isSavingMetadata, saveReqs, uploadVars, saveCalls>>

\* error: callback of performSearch for request i
\* an error callback that leaves the loading flag set
SearchErrorKeepsLoading(i, error) ==
  /\ i \in DOMAIN searchReqs
  /\ UNCHANGED isLoading
  /\ foods' = <<>>
  /\ selectedFood' = NULL
  /\ snackBar' = handleError(error, "Failed to search foods")
  /\ searchReqs' = AfterAnswer(searchReqs, i)
  /\ ev' = [kind |-> "searchError", req |-> searchReqs[i], error |-> error]
  /\ UNCHANGED <<searchInputVars, selectedIndex, selectedFoodIds, showPerServing,
                 nutrientTableData, formVars, isSavingMetadata, originalMetadata,
                 saveReqs, uploadVars, saveCalls>>

SearchError(i, error) ==
  /\ i \in DOMAIN searchReqs
  /\ isLoading' = FALSE
  /\ foods' = <<>>
  /\ selectedFood' = NULL
  /\ snackBar' = handleError(error, "Failed to search foods")
  /\ searchReqs' = AfterAnswer(searchReqs, i)
  /\ ev' = [kind |-> "searchError", req |-> searchReqs[i], error |-> error]
  /\ UNCHANGED <<searchInputVars, selectedIndex, selectedFoodIds, showPerServing,
                 nutrientTableData, formVars, isSavingMetadata, originalMetadata,
                 saveReqs, uploadVars, saveCalls>>

(***************************************************************************)
(* FoodsComponent: focus.                                                  *)
(***************************************************************************)
onFoodSelected(index) ==
  /\ ev' = [kind |-> "onFoodSelected", index |-> index]
  /\ IF index >= 0 /\ index < Len(foods)
     THEN /\ SelectIndex(index)
          /\ UNCHANGED <<searchInputVars, foods, selectedFoodIds, isLoading,
                         showPerServing, isSavingMetadata, searchReqs, saveReqs,
                         snackBar, uploadVars, saveCalls>>
     ELSE UNCHANGED <<foodsVars, snackBar, uploadVars, saveCalls>>

\* a key handler whose ArrowDown wraps from the last record to the first
onListKeydownWrap(key) ==
  LET newIndex ==
        IF key = "ArrowDown"
        THEN IF selectedIndex + 1 >= Len(foods) THEN 0 ELSE selectedIndex + 1
        ELSE IF key = "ArrowUp" THEN Max(selectedIndex - 1, 0)
        ELSE selectedIndex
  IN /\ ev' = [kind |-> "onListKeydown", key |-> key]
     /\ IF newIndex # selectedIndex /\ newIndex >= 0 /\ newIndex < Len(foods)
        THEN /\ SelectIndex(newIndex)
             /\ UNCHANGED <<searchInputVars, foods, selectedFoodIds, isLoading,
                            showPerServing, isSavingMetadata, searchReqs,
                            saveReqs, snackBar, uploadVars, saveCalls>>
        ELSE UNCHANGED <<foodsVars, snackBar, uploadVars, saveCalls>>

onListKeydown(key) ==
  LET newIndex ==
        IF key = "ArrowDown" THEN Min(selectedIndex + 1, Len(foods) - 1)
        ELSE IF key = "ArrowUp" THEN Max(selectedIndex - 1, 0)
        ELSE selectedIndex
  IN /\ ev' = [kind |-> "onListKeydown", key |-> key]
     /\ IF newIndex # selectedIndex /\ newIndex >= 0 /\ newIndex < Len(foods)
        THEN /\ SelectIndex(newIndex)
             /\ UNCHANGED <<searchInputVars, foods, selectedFoodIds, isLoading,
                            showPerServing, isSavingMetadata, searchReqs,
                            saveReqs, snackBar, uploadVars, saveCalls>>
        ELSE UNCHANGED <<foodsVars, snackBar, uploadVars, saveCalls>>

(***************************************************************************)
(* FoodsComponent: the nutrient table.                                     *)
(***************************************************************************)
toggleServingMode ==
  /\ ev' = [kind |-> "toggleServingMode", showPerServing |-> showPerServing,
            nutrientTableData |-> nutrientTableData]
  /\ showPerServing' = ~showPerServing
  /\ updateNutrientTableData(selectedFood, ~showPerServing)
  /\ UNCHANGED <<searchInputVars, focusVars, selectedFoodIds, isLoading,
                 formVars, isSavingMetadata, originalMetadata, searchReqs,
                 saveReqs, snackBar, uploadVars, saveCalls>>

(***************************************************************************)
(* FoodsComponent: multi-select.  selectedFoodIds is a Set<number>, which  *)
(* keeps its members in insertion order: a sequence without repetitions.   *)
(***************************************************************************)
SetHas(set, x) == \E i \in DOMAIN set : set[i] = x
SetAdd(set, x) == IF SetHas(set, x) THEN set ELSE Append(set, x)
Members(set) == {set[i] : i \in DOMAIN set}

\* a toggle that only ever checks a record
toggleFoodSelectionAddOnly(food) ==
  /\ ev' = [kind |-> "toggleFoodSelection", food |-> food,
            before |-> selectedFoodIds]
  /\ selectedFoodIds' =
       IF ~HasId(food) THEN selectedFoodIds
       ELSE SetAdd(selectedFoodIds, food.id)
  /\ UNCHANGED <<searchInputVars, focusVars, isLoading, showPerServing,
                 nutrientTableData, formVars, isSavingMetadata,
                 originalMetadata, searchReqs, saveReqs, snackBar, uploadVars,
                 saveCalls>>

toggleFoodSelection(food) ==
  /\ ev' = [kind |-> "toggleFoodSelection", food |-> food,
            before |-> selectedFoodIds]
  /\ selectedFoodIds' =
       IF ~HasId(food) THEN selectedFoodIds
       ELSE IF SetHas(selectedFoodIds, food.id)
            THEN SelectSeq(selectedFoodIds, LAMBDA id : id # food.id)
            ELSE SetAdd(selectedFoodIds, food.id)
  /\ UNCHANGED <<searchInputVars, focusVars, isLoading, showPerServing,
                 nutrientTableData, formVars, isSavingMetadata,
                 originalMetadata, searchReqs, saveReqs, snackBar, uploadVars,
                 saveCalls>>

\* a call of isFoodSelected, its result recorded:
\* food && food.id ? selectedFoodIds.has(food.id) : false
isFoodSelected(food) ==
  /\ ev' = [kind |-> "isFoodSelected", food |-> food,
            result |-> HasId(food) /\ SetHas(selectedFoodIds, food.id)]
  /\ UNCHANGED <<foodsVars, snackBar, uploadVars, saveCalls>>

getSelectedCount == Len(selectedFoodIds)

getSelectedFoodIds == selectedFoodIds

\* a view that returns the whole result list
getSelectedFoodsUnfiltered == foods

getSelectedFoods == SelectSeq(foods, LAMBDA food : SetHas(selectedFoodIds, food.id))

clearAllSelections ==
  /\ ev' = [kind |-> "clearAllSelections", before |-> selectedFoodIds]
  /\ selectedFoodIds' = <<>>
  /\ UNCHANGED <<searchInputVars, focusVars, isLoading, showPerServing,
                 nutrientTableData, formVars, isSavingMetadata,
                 originalMetadata, searchReqs, saveReqs, snackBar, uploadVars,
                 saveCalls>>

\* foods.forEach(food => { if (food.id) selectedFoodIds.add(food.id) })
RECURSIVE AddEach(_, _)
AddEach(set, list) ==
  IF list = <<>> THEN set
  ELSE AddEach(IF Truthy(Head(list).id) THEN SetAdd(set, Head(list).id) ELSE set,
               Tail(list))

\* a select-all that replaces the checked set by the ids of the list
selectAllFoodsReplace ==
  /\ ev' = [kind |-> "selectAllFoods", before |-> selectedFoodIds]
  /\ selectedFoodIds' = AddEach(<<>>, foods)
  /\ UNCHANGED <<searchInputVars, focusVars, isLoading, showPerServing,
                 nutrientTableData, formVars, isSavingMetadata,
                 originalMetadata, searchReqs, saveReqs, snackBar, uploadVars,
                 saveCalls>>

selectAllFoods ==
  /\ ev' = [kind |-> "selectAllFoods", before |-> selectedFoodIds]
  /\ selectedFoodIds' = AddEach(selectedFoodIds, foods)
  /\ UNCHANGED <<searchInputVars, focusVars, isLoading, showPerServing,
                 nutrientTableData, formVars, isSavingMetadata,
                 originalMetadata, searchReqs, saveReqs, snackBar, uploadVars,
                 saveCalls>>

(***************************************************************************)
(* FoodsComponent: the metadata form.                                      *)
(***************************************************************************)
EditShortDescription(v) ==
  /\ shortDescriptionControl' = v
  /\ ev' = [kind |-> "editShortDescription"]
  /\ UNCHANGED <<searchInputVars, focusVars, selectedFoodIds, isLoading,
                 showPerServing, nutrientTableData, glycemicIndexControl,
                 glycemicLoadControl, isSavingMetadata, originalMetadata,
                 searchReqs, saveReqs, snackBar, uploadVars, saveCalls>>

EditGlycemicIndex(v) ==
  /\ glycemicIndexControl' = v
  /\ ev' = [kind |-> "editGlycemicIndex"]
  /\ UNCHANGED <<searchInputVars, focusVars, selectedFoodIds, isLoading,
                 showPerServing, nutrientTableData, shortDescriptionControl,
                 glycemicLoadControl, isSavingMetadata, originalMetadata,
                 searchReqs, saveReqs, snackBar, uploadVars, saveCalls>>

EditGlycemicLoad(v) ==
  /\ glycemicLoadControl' = v
  /\ ev' = [kind |-> "editGlycemicLoad"]
  /\ UNCHANGED <<searchInputVars, focusVars, selectedFoodIds, isLoading,
                 showPerServing, nutrientTableData, shortDescriptionControl,
                 glycemicIndexControl, isSavingMetadata, originalMetadata,
                 searchReqs, saveReqs, snackBar, uploadVars, saveCalls>>

saveMetadata ==
  LET update == BuildUpdate(FormValues, originalMetadata)
  IN IF ~HasId(selectedFood)
     THEN /\ snackBar' = Toast("No food selected")
          /\ ev' = [kind |-> "saveMetadata", issued |-> FALSE]
          /\ UNCHANGED <<foodsVars, uploadVars, saveCalls>>
     ELSE IF DOMAIN update = {}
     THEN /\ snackBar' = Toast("No changes to save")
          /\ ev' = [kind |-> "saveMetadata", issued |-> FALSE]
          /\ UNCHANGED <<foodsVars, uploadVars, saveCalls>>
     ELSE /\ saveCalls < MaxSaveCalls
          /\ saveCalls' = saveCalls + 1
          /\ isSavingMetadata' = TRUE
          /\ saveReqs' =
               Append(saveReqs,
                      [id |-> selectedFood.id, update |-> update,
                       base |-> selectedFood])
          /\ ev' = [kind |-> "saveMetadata", issued |-> TRUE]
          /\ UNCHANGED <<searchInputVars, focusVars, selectedFoodIds, isLoading,
                         showPerServing, nutrientTableData, formVars,
                         originalMetadata, searchReqs, snackBar, uploadVars>>

\* next: callback of saveMetadata for request i
SaveNext(i, updatedFood) ==
  LET index == FindIndexById(foods, updatedFood.id)
  IN /\ i \in DOMAIN saveReqs
     /\ selectedFood' = updatedFood
     /\ foods' = IF index >= 0 THEN [foods EXCEPT ![index + 1] = updatedFood]
                 ELSE foods
     /\ originalMetadata' = MetadataOf(updatedFood)
     /\ snackBar' = Toast("Metadata saved successfully")
     /\ isSavingMetadata' = FALSE
     /\ saveReqs' = RemoveAt(saveReqs, i)
     /\ ev' = [kind |-> "saveNext", req |-> saveReqs[i],
               updatedFood |-> updatedFood]
     /\ UNCHANGED <<searchInputVars, selectedIndex, selectedFoodIds, isLoading,
                    showPerServing, nutrientTableData, formVars, searchReqs,
                    uploadVars, saveCalls>>

\* an error callback that also resets the form
SaveErrorClearsForm(i, error) ==
  /\ i \in DOMAIN saveReqs
  /\ isSavingMetadata' = FALSE
  /\ snackBar' = handleError(error, "Failed to save metadata")
  /\ saveReqs' = RemoveAt(saveReqs, i)
  /\ ev' = [kind |-> "saveError", req |-> saveReqs[i], error |-> error]
  /\ populateMetadataFields(IF selectedFood = NULL THEN FoodNoId ELSE selectedFood)
  /\ UNCHANGED <<searchInputVars, focusVars, selectedFoodIds, isLoading,
                 showPerServing, nutrientTableData, searchReqs, uploadVars,
                 saveCalls>>

\* error: callback of saveMetadata for request i
SaveError(i, error) ==
  /\ i \in DOMAIN saveReqs
  /\ isSavingMetadata' = FALSE
  /\ snackBar' = handleError(error, "Failed to save metadata")
  /\ saveReqs' = RemoveAt(saveReqs, i)
  /\ ev' = [kind |-> "saveError", req |-> saveReqs[i], error |-> error]
  /\ UNCHANGED <<searchInputVars, focusVars, selectedFoodIds, isLoading,
                 showPerServing, nutrientTableData, formVars, originalMetadata,
                 searchReqs, uploadVars, saveCalls>>

(***************************************************************************)
(* ImageUploadComponent: files and validation.                             *)
(***************************************************************************)
MkFile(name, type, size) == [name |-> name, type |-> type, size |-> size]

ImagePng == <<"i", "m", "a", "g", "e", "/", "p", "n", "g">>
TextPlain == <<"t", "e", "x", "t", "/", "p", "l", "a", "i", "n">>
FileA == MkFile("a.png", ImagePng, 2048)
FileB == MkFile("b.png", ImagePng, 10 * 1024 * 1024)
FileOver == MkFile("over.png", ImagePng, 10 * 1024 * 1024 + 1)
FileBig == MkFile("big.png", ImagePng, 11 * 1024 * 1024)
FileText == MkFile("notes.txt", TextPlain, 12)

\* String.prototype.startsWith
StartsWith(s, prefix) ==
  Len(s) >= Len(prefix) /\ SubSeq(s, 1, Len(prefix)) = prefix

ImageSlash == <<"i", "m", "a", "g", "e", "/">>

\* a validation that also rejects a file of exactly the maximum size
validateFileToastBelowLimit(file) ==
  IF ~StartsWith(file.type, ImageSlash) THEN Toast("Please select an image file")
  ELSE IF file.size >= 10 * 1024 * 1024
  THEN Toast("File size must be less than 10MB")
  ELSE NoToast

\* validateFile: the notification of a rejected file, NoToast for a valid one
validateFileToast(file) ==
  IF ~StartsWith(file.type, ImageSlash) THEN Toast("Please select an image file")
  ELSE IF file.size > 10 * 1024 * 1024
  THEN Toast("File size must be less than 10MB")
  ELSE NoToast

validateFile(file) == validateFileToast(file) = NoToast

\* FileReader.readAsDataURL: the inline representation of a file
DataUrl(file) == [k |-> "string", v |-> "data:", name |-> file.name]

Slots == {"nutrition", "product", "ingredients"}

SlotFile(slot) ==
  CASE slot = "nutrition" -> nutritionImageFile
    [] slot = "product" -> productImageFile
    [] OTHER -> ingredientsImageFile

SlotPreview(slot) ==
  CASE slot = "nutrition" -> nutritionImagePreview
    [] slot = "product" -> productImagePreview
    [] OTHER -> ingredientsImagePreview

\* handleNutritionFile / handleProductFile / handleIngredientsFile applied to
\* the candidate files in order: the pending file, the decodes started and
\* the notification shown afterwards
RECURSIVE HandleFiles(_, _)
HandleFiles(acc, files) ==
  IF files = <<>> THEN acc
  ELSE LET file == Head(files)
       IN IF validateFile(file)
          THEN HandleFiles([file |-> file, started |-> acc.started \cup {file},
                            toast |-> acc.toast], Tail(files))
          ELSE HandleFiles([acc EXCEPT !.toast = validateFileToast(file)],
                           Tail(files))

\* the files of the items a paste handler passes on: image-typed items
\* whose getAsFile() is not null
RECURSIVE PastedFiles(_)
PastedFiles(items) ==
  IF items = <<>> THEN <<>>
  ELSE (IF StartsWith(Head(items).type, ImageSlash) /\ Head(items).file # NULL
        THEN <<Head(items).file>> ELSE <<>>) \o PastedFiles(Tail(items))

\* the slot takes the outcome of handling the candidate files
Stage(slot, files) ==
  LET r == HandleFiles([file |-> SlotFile(slot), started |-> {},
                        toast |-> snackBar], files)
  IN /\ nutritionImageFile' =
          IF slot = "nutrition" THEN r.file ELSE nutritionImageFile
     /\ productImageFile' = IF slot = "product" THEN r.file ELSE productImageFile
     /\ ingredientsImageFile' =
          IF slot = "ingredients" THEN r.file ELSE ingredientsImageFile
     /\ readers' = readers \cup {[slot |-> slot, file |-> f] : f \in r.started}
     /\ snackBar' = r.toast

previewVars ==
  <<nutritionImagePreview, productImagePreview, ingredientsImagePreview>>

SetDragging(slot, b) ==
  /\ isDraggingNutrition' = IF slot = "nutrition" THEN b ELSE isDraggingNutrition
  /\ isDraggingProduct' = IF slot = "product" THEN b ELSE isDraggingProduct
  /\ isDraggingIngredients' =
       IF slot = "ingredients" THEN b ELSE isDraggingIngredients

(***************************************************************************)
(* ImageUploadComponent: inputs, drag and drop, file pick, paste.          *)
(***************************************************************************)
\* the parent binds new input values; ngOnChanges runs loadExistingImages
ngOnChanges(id, nutritionUrl, productUrl) ==
  /\ foodId' = id
  /\ existingNutritionImageUrl' = nutritionUrl
  /\ existingProductImageUrl' = productUrl
  /\ nutritionImagePreview' =
       IF Truthy(nutritionUrl) THEN nutritionUrl ELSE nutritionImagePreview
  /\ productImagePreview' =
       IF Truthy(productUrl) THEN productUrl ELSE productImagePreview
  /\ ev' = [kind |-> "ngOnChanges"]
  /\ UNCHANGED <<foodsVars, saveCalls, snackBar, isUploading, nutritionImageFile,
                 productImageFile, ingredientsImageFile, dragVars,
                 ingredientsImagePreview, readers, uploadRuns, emitted>>

onDragOver(slot) ==
  /\ SetDragging(slot, TRUE)
  /\ ev' = [kind |-> "onDragOver", slot |-> slot]
  /\ UNCHANGED <<foodsVars, saveCalls, snackBar, inputVars, isUploading,
                 slotVars, readers, uploadRuns, emitted>>

onDragLeave(slot) ==
  /\ SetDragging(slot, FALSE)
  /\ ev' = [kind |-> "onDragLeave", slot |-> slot]
  /\ UNCHANGED <<foodsVars, saveCalls, snackBar, inputVars, isUploading,
                 slotVars, readers, uploadRuns, emitted>>

\* files: event.dataTransfer.files
onDrop(slot, files) ==
  /\ SetDragging(slot, FALSE)
  /\ Stage(slot, IF Len(files) > 0 THEN <<files[1]>> ELSE <<>>)
  /\ ev' = [kind |-> "onDrop", slot |-> slot, files |-> files]
  /\ UNCHANGED <<foodsVars, saveCalls, inputVars, isUploading, previewVars,
                 uploadRuns, emitted>>

\* files: input.files
onFileSelected(slot, files) ==
  /\ Stage(slot, IF Len(files) > 0 THEN <<files[1]>> ELSE <<>>)
  /\ ev' = [kind |-> "onFileSelected", slot |-> slot, files |-> files]
  /\ UNCHANGED <<foodsVars, saveCalls, inputVars, isUploading, dragVars,
                 previewVars, uploadRuns, emitted>>

\* items: event.clipboardData.items, each with a type and a file or null
onPaste(slot, items) ==
  /\ Stage(slot, PastedFiles(items))
  /\ ev' = [kind |-> "onPaste", slot |-> slot, items |-> items]
  /\ UNCHANGED <<foodsVars, saveCalls, inputVars, isUploading, dragVars,
                 previewVars, uploadRuns, emitted>>

onNutritionDragOver == onDragOver("nutrition")
onNutritionDragLeave == onDragLeave("nutrition")
onNutritionDrop(files) == onDrop("nutrition", files)
onProductDrop(files) == onDrop("product", files)
onIngredientsDrop(files) == onDrop("ingredients", files)
onNutritionFileSelected(files) == onFileSelected("nutrition", files)
onProductFileSelected(files) == onFileSelected("product", files)
onIngredientsFileSelected(files) == onFileSelected("ingredients", files)
onNutritionPaste(items) == onPaste("nutrition", items)
onProductPaste(items) == onPaste("product", items)
onIngredientsPaste(items) == onPaste("ingredients", items)

\* reader.onload of createImagePreview(file, slot)
ReaderLoad(slot, file) ==
  /\ [slot |-> slot, file |-> file] \in readers
  /\ readers' = readers \ {[slot |-> slot, file |-> file]}
  /\ nutritionImagePreview' =
       IF slot = "nutrition" THEN DataUrl(file) ELSE nutritionImagePreview
  /\ productImagePreview' =
       IF slot = "product" THEN DataUrl(file) ELSE productImagePreview
  /\ ingredientsImagePreview' =
       IF slot = "ingredients" THEN DataUrl(file) ELSE ingredientsImagePreview
  /\ ev' = [kind |-> "readerLoad", slot |-> slot, file |-> file]
  /\ UNCHANGED <<foodsVars, saveCalls, snackBar, inputVars, isUploading,
                 nutritionImageFile, productImageFile, ingredientsImageFile,
                 dragVars, uploadRuns, emitted>>

(***************************************************************************)
(* ImageUploadComponent: removing and clearing.                            *)
(***************************************************************************)
removeNutritionImage ==
  /\ nutritionImageFile' = NULL
  /\ nutritionImagePreview' =
       IF Truthy(existingNutritionImageUrl) THEN existingNutritionImageUrl
       ELSE NULL
  /\ ev' = [kind |-> "removeNutritionImage"]
  /\ UNCHANGED <<foodsVars, saveCalls, snackBar, inputVars, isUploading,
                 productImageFile, ingredientsImageFile, dragVars,
                 productImagePreview, ingredientsImagePreview, readers,
                 uploadRuns, emitted>>

removeProductImage ==
  /\ productImageFile' = NULL
  /\ productImagePreview' =
       IF Truthy(existingProductImageUrl) THEN existingProductImageUrl ELSE NULL
  /\ ev' = [kind |-> "removeProductImage"]
  /\ UNCHANGED <<foodsVars, saveCalls, snackBar, inputVars, isUploading,
                 nutritionImageFile, ingredientsImageFile, dragVars,
                 nutritionImagePreview, ingredientsImagePreview, readers,
                 uploadRuns, emitted>>

removeIngredientsImage ==
  /\ ingredientsImageFile' = NULL
  /\ ingredientsImagePreview' = NULL
  /\ ev' = [kind |-> "removeIngredientsImage"]
  /\ UNCHANGED <<foodsVars, saveCalls, snackBar, inputVars, isUploading,
                 nutritionImageFile, productImageFile, dragVars,
                 nutritionImagePreview, productImagePreview, readers,
                 uploadRuns, emitted>>

clearAllImages ==
  /\ nutritionImageFile' = NULL
  /\ productImageFile' = NULL
  /\ ingredientsImageFile' = NULL
  /\ nutritionImagePreview' = NULL
  /\ productImagePreview' = NULL
  /\ ingredientsImagePreview' = NULL
  /\ ev' = [kind |-> "clearAllImages"]
  /\ UNCHANGED <<foodsVars, saveCalls, snackBar, inputVars, isUploading,
                 dragVars, readers, uploadRuns, emitted>>

(***************************************************************************)
(* ImageUploadComponent: uploadImages.                                      *)
(***************************************************************************)
\* what the promise of a request settles to
UploadOk == [success |-> TRUE]
UploadDeclined == [success |-> FALSE]
UploadFailure(bodyMessage, message) ==
  [failed |-> TRUE, error |-> [message |-> bodyMessage], message |-> message]

Rejected(outcome) == outcome # UNDEFINED /\ "failed" \in DOMAIN outcome

\* response?.success
Succeeded(outcome) ==
  outcome # UNDEFINED /\ "success" \in DOMAIN outcome /\ outcome.success

\* a || b
OrElse(a, b) == IF Truthy(a) THEN a ELSE b

\* the warning pushed by a catch block
Warning(label, error) ==
  [label |-> label,
   text |-> OrElse(error.error.message,
                   OrElse(error.message, Str("Upload failed")))]

buildUploadMessage(nutritionUploaded, productUploaded, ingredientsUploaded) ==
  LET uploaded ==
        (IF nutritionUploaded THEN <<"Nutrition facts">> ELSE <<>>)
        \o (IF ingredientsUploaded THEN <<"Ingredients">> ELSE <<>>)
        \o (IF productUploaded THEN <<"Product">> ELSE <<>>)
  IN IF Len(uploaded) = 0 THEN Toast("No images were uploaded")
     ELSE IF Len(uploaded) = 1
     THEN ToastList(" image uploaded successfully!", uploaded)
     ELSE ToastList(" images uploaded successfully!", uploaded)

\* the locals of a run that has not sent anything yet
NewRun ==
  [nutritionUploaded |-> FALSE, productUploaded |-> FALSE,
   ingredientsUploaded |-> FALSE, warnings |-> <<>>]

\* a nutrition request that leaves the staged ingredients file out
NutritionRequestWithoutIngredients ==
  [endpoint |-> "/api/image/upload/nutrition", description |-> foodId,
   nutritionImage |-> nutritionImageFile, ingredientsImage |-> UNDEFINED]

\* uploadNutritionImage(this.foodId, this.nutritionImageFile, options): the
\* first argument is sent as the form field "description"
NutritionRequest ==
  [endpoint |-> "/api/image/upload/nutrition", description |-> foodId,
   nutritionImage |-> nutritionImageFile,
   ingredientsImage |->
     IF ingredientsImageFile # NULL THEN ingredientsImageFile ELSE UNDEFINED]

\* uploadProductImage(this.foodId, this.productImageFile)
ProductRequest ==
  [endpoint |-> "/api/image/upload/product", foodId |-> foodId,
   image |-> productImageFile]

Suspended(locals, pc, req) ==
  [pc |-> pc, req |-> req, nutritionUploaded |-> locals.nutritionUploaded,
   productUploaded |-> locals.productUploaded,
   ingredientsUploaded |-> locals.ingredientsUploaded,
   warnings |-> locals.warnings]

ImageUploadResponse(locals) ==
  [success |-> locals.nutritionUploaded \/ locals.productUploaded
               \/ locals.ingredientsUploaded,
   nutritionImageUploaded |-> locals.nutritionUploaded,
   productImageUploaded |-> locals.productUploaded,
   ingredientsImageUploaded |-> locals.ingredientsUploaded,
   message |-> buildUploadMessage(locals.nutritionUploaded,
                                  locals.productUploaded,
                                  locals.ingredientsUploaded),
   warnings |-> IF Len(locals.warnings) > 0 THEN locals.warnings ELSE UNDEFINED]

\* "Build response" to the end of uploadImages, the finally block included
FinishUpload(locals) ==
  LET response == ImageUploadResponse(locals)
  IN /\ snackBar' =
          IF response.success THEN response.message
          ELSE IF Len(locals.warnings) > 0
          THEN ToastList("Upload failed: ", locals.warnings)
          ELSE snackBar
     /\ emitted' =
          IF response.success
          THEN <<[event |-> "imagesUploaded", value |-> response],
                 [event |-> "refreshFood"]>>
          ELSE <<>>
     /\ isUploading' = FALSE

\* the product block of a run that gives up once a warning was recorded
ProductStepUnlessWarned(i, locals, uploading) ==
  IF productImageFile # NULL /\ Truthy(foodId) /\ locals.warnings = <<>>
  THEN /\ uploadRuns' =
            IF i \in DOMAIN uploadRuns
            THEN [uploadRuns EXCEPT ![i] = Suspended(locals, "product",
                                                     ProductRequest)]
            ELSE Append(uploadRuns, Suspended(locals, "product", ProductRequest))
       /\ emitted' = <<>>
       /\ isUploading' = uploading
       /\ UNCHANGED snackBar
  ELSE /\ uploadRuns' =
            IF i \in DOMAIN uploadRuns THEN RemoveAt(uploadRuns, i)
            ELSE uploadRuns
       /\ FinishUpload(locals)

\* the product block: send the product request, isUploading being as the
\* caller has it, or finish the run
ProductStep(i, locals, uploading) ==
  IF productImageFile # NULL /\ Truthy(foodId)
  THEN /\ uploadRuns' =
            IF i \in DOMAIN uploadRuns
            THEN [uploadRuns EXCEPT ![i] = Suspended(locals, "product",
                                                     ProductRequest)]
            ELSE Append(uploadRuns, Suspended(locals, "product", ProductRequest))
       /\ emitted' = <<>>
       /\ isUploading' = uploading
       /\ UNCHANGED snackBar
  ELSE /\ uploadRuns' =
            IF i \in DOMAIN uploadRuns THEN RemoveAt(uploadRuns, i)
            ELSE uploadRuns
       /\ FinishUpload(locals)

\* pre-checks that ask for a food id only when a nutrition or an
\* ingredients file is staged
UploadPreCheckNutritionOnly ==
  IF nutritionImageFile = NULL /\ productImageFile = NULL
     /\ ingredientsImageFile = NULL
  THEN Toast("Please select at least one image to upload")
  ELSE IF (nutritionImageFile # NULL \/ ingredientsImageFile # NULL)
          /\ ~Truthy(foodId)
  THEN Toast("No Food ID for image upload")
  ELSE NoToast

\* the two pre-checks of uploadImages: the notification of the one that
\* rejects the call, NoToast when both pass
UploadPreCheck ==
  IF nutritionImageFile = NULL /\ productImageFile = NULL
     /\ ingredientsImageFile = NULL
  THEN Toast("Please select at least one image to upload")
  ELSE IF (nutritionImageFile # NULL \/ ingredientsImageFile # NULL
             \/ productImageFile # NULL)
          /\ ~Truthy(foodId)
  THEN Toast("No Food ID for image upload")
  ELSE NoToast

\* the call, up to its first await
uploadImages ==
  /\ Len(uploadRuns) <= MaxRuns
  /\ IF UploadPreCheck # NoToast
     THEN /\ snackBar' = UploadPreCheck
          /\ ev' = [kind |-> "uploadImages", started |-> FALSE]
          /\ UNCHANGED <<isUploading, uploadRuns, emitted>>
     ELSE /\ ev' = [kind |-> "uploadImages", started |-> TRUE]
          /\ IF nutritionImageFile # NULL /\ Truthy(foodId)
             THEN /\ uploadRuns' =
                       Append(uploadRuns,
                              Suspended(NewRun, "nutrition", NutritionRequest))
                  /\ isUploading' = TRUE
                  /\ emitted' = <<>>
                  /\ UNCHANGED snackBar
             ELSE ProductStep(0, NewRun, TRUE)
  /\ UNCHANGED <<foodsVars, saveCalls, inputVars, slotVars, dragVars, readers>>

\* the nutrition request of run i settles; the run goes on to the product
\* block
NutritionSettled(i, outcome) ==
  /\ i \in DOMAIN uploadRuns
  /\ uploadRuns[i].pc = "nutrition"
  /\ LET run == uploadRuns[i]
         ok == Succeeded(outcome)
         withIngredients == ok /\ ingredientsImageFile # NULL
         locals ==
           [run EXCEPT
              !.nutritionUploaded = ok,
              !.ingredientsUploaded = withIngredients,
              !.warnings = IF Rejected(outcome)
                           THEN Append(@, Warning("Nutrition image", outcome))
                           ELSE @]
     IN /\ nutritionImageFile' = IF ok THEN NULL ELSE nutritionImageFile
        /\ ingredientsImageFile' =
             IF withIngredients THEN NULL ELSE ingredientsImageFile
        /\ ingredientsImagePreview' =
             IF withIngredients THEN NULL ELSE ingredientsImagePreview
        /\ ProductStep(i, locals, isUploading)
        /\ ev' = [kind |-> "nutritionSettled", i |-> i, run |-> run,
                  outcome |-> outcome]
  /\ UNCHANGED <<foodsVars, saveCalls, inputVars, productImageFile, dragVars,
                 nutritionImagePreview, productImagePreview, readers>>

\* the product request of run i settles; the run ends
ProductSettled(i, outcome) ==
  /\ i \in DOMAIN uploadRuns
  /\ uploadRuns[i].pc = "product"
  /\ LET run == uploadRuns[i]
         ok == Succeeded(outcome)
         locals ==
           [run EXCEPT
              !.productUploaded = ok,
              !.warnings = IF Rejected(outcome)
                           THEN Append(@, Warning("Product image", outcome))
                           ELSE @]
     IN /\ productImageFile' = IF ok THEN NULL ELSE productImageFile
        /\ uploadRuns' = RemoveAt(uploadRuns, i)
        /\ FinishUpload(locals)
        /\ ev' = [kind |-> "productSettled", i |-> i, run |-> run,
                  outcome |-> outcome]
  /\ UNCHANGED <<foodsVars, saveCalls, inputVars, nutritionImageFile,
                 ingredientsImageFile, dragVars, previewVars, readers>>

(***************************************************************************)
(* Spec: searching and focusing.  One search is outstanding at a time; the *)
(* backend answers it with any result list or any error.                   *)
(***************************************************************************)
NextSearch ==
  \/ \E q \in Queries : SetQuery(q)
  \/ \E b \in BOOLEAN : SetYehApproved(b)
  \/ (searchReqs = <<>> /\ performSearch)
  \/ \E r \in SearchResults : SearchNext(1, r)
  \/ \E e \in HttpErrors : SearchError(1, e)
  \/ \E index \in -1..MaxResults : onFoodSelected(index)
  \/ \E key \in {"ArrowDown", "ArrowUp", "Enter"} : onListKeydown(key)

Spec == Init /\ [][NextSearch]_vars

(***************************************************************************)
(* SpecOverlap: searches issued while earlier ones are outstanding, and    *)
(* answered in any order.                                                  *)
(***************************************************************************)
OverlapResults == {Wrapped(<<FoodApple, FoodBanana>>), Single(FoodBanana)}

NextOverlap ==
  \/ \E q \in {<<>>, <<" ", "A", "P">>} : SetQuery(q)
  \/ \E b \in BOOLEAN : SetYehApproved(b)
  \/ performSearch
  \/ \E i \in DOMAIN searchReqs : \E r \in OverlapResults : SearchNext(i, r)
  \/ \E i \in DOMAIN searchReqs : SearchError(i, HttpError(0, FALSE))

SpecOverlap == Init /\ [][NextOverlap]_vars

(***************************************************************************)
(* SpecSave: editing and saving metadata of the records of one result      *)
(* list, with the focus moving and the list reloaded in between.           *)
(***************************************************************************)
SaveResults == {Wrapped(<<FoodApple, FoodBanana>>), Single(FoodNoId)}

NextSave ==
  \/ SetYehApproved(TRUE)
  \/ (searchReqs = <<>> /\ performSearch)
  \/ \E r \in SaveResults : SearchNext(1, r)
  \/ \E index \in 0..1 : onFoodSelected(index)
  \/ EditShortDescription(Str(""))
  \/ EditGlycemicIndex(Num(40))
  \/ EditGlycemicLoad(NULL)
  \/ saveMetadata
  \/ \E i \in DOMAIN saveReqs : \E f \in PatchResponses(saveReqs[i]) : SaveNext(i, f)
  \/ \E i \in DOMAIN saveReqs :
       \E e \in {HttpError(500, FALSE), HttpError(400, TRUE)} : SaveError(i, e)

SpecSave == Init /\ [][NextSave]_vars

(***************************************************************************)
(* SpecUpload: upload runs, with staging, removal and input changes        *)
(* interleaved.                                                            *)
(***************************************************************************)
UploadSettles ==
  {UploadOk, UploadDeclined,
   UploadFailure(UNDEFINED, Str("Http failure response"))}

NextUpload ==
  \/ \E id \in {NULL, Num(7)}: ngOnChanges(id, NULL, NULL)
  \/ \E f \in {FileA, FileB}: onNutritionFileSelected(<<f>>)
  \/ onProductFileSelected(<<FileA>>)
  \/ onIngredientsFileSelected(<<FileB>>)
  \/ removeNutritionImage
  \/ removeProductImage
  \/ removeIngredientsImage
  \/ (Len(uploadRuns) < MaxRuns /\ uploadImages)
  \/ \E i \in DOMAIN uploadRuns: \E o \in UploadSettles: NutritionSettled(i, o)
  \/ \E i \in DOMAIN uploadRuns: \E o \in UploadSettles: ProductSettled(i, o)

SpecUpload == Init /\ [][NextUpload]_vars

(***************************************************************************)
(* SpecPreview: staging by drop, pick and paste, previews, removal.        *)
(***************************************************************************)
DroppedFiles == {<<>>, <<FileA>>, <<FileText, FileA>>, <<FileOver>>}
PastedItems ==
  {<<[type |-> TextPlain, file |-> NULL]>>,
   <<[type |-> ImagePng, file |-> NULL], [type |-> ImagePng, file |-> FileB]>>,
   <<[type |-> ImagePng, file |-> FileB], [type |-> ImagePng, file |-> FileBig]>>}

NextPreview ==
  \/ \E n \in {NULL, Str("https://cdn/nutrition.jpg")}:
     \E p \in {NULL, Str("https://cdn/product.jpg")}:
       ngOnChanges(Num(7), n, p)
  \/ onNutritionDragOver
  \/ onNutritionDragLeave
  \/ \E files \in DroppedFiles: onNutritionDrop(files)
  \/ \E files \in DroppedFiles: onProductFileSelected(files)
  \/ \E items \in PastedItems: onIngredientsPaste(items)
  \/ \E slot \in Slots: \E file \in {FileA, FileB}: ReaderLoad(slot, file)
  \/ removeNutritionImage
  \/ removeProductImage
  \/ removeIngredientsImage
  \/ clearAllImages

SpecPreview == Init /\ [][NextPreview]_vars

(***************************************************************************)
(* SpecStage: every slot offered files by drop, pick and paste.            *)
(***************************************************************************)
OfferedFiles == {<<>>, <<FileB>>, <<FileBig>>, <<FileOver>>, <<FileText>>}
ItemOf(file) == [type |-> file.type, file |-> file]
OfferedItems ==
  {<<ItemOf(FileB)>>, <<ItemOf(FileText)>>, <<ItemOf(FileBig)>>,
   <<[type |-> TextPlain, file |-> NULL], ItemOf(FileB), ItemOf(FileOver)>>}

NextStage ==
  \/ \E files \in OfferedFiles: onNutritionDrop(files)
  \/ \E files \in OfferedFiles: onProductDrop(files)
  \/ \E files \in OfferedFiles: onIngredientsDrop(files)
  \/ \E files \in OfferedFiles: onNutritionFileSelected(files)
  \/ \E files \in OfferedFiles: onProductFileSelected(files)
  \/ \E files \in OfferedFiles: onIngredientsFileSelected(files)
  \/ \E items \in OfferedItems: onNutritionPaste(items)
  \/ \E items \in OfferedItems: onProductPaste(items)
  \/ \E items \in OfferedItems: onIngredientsPaste(items)
  \/ \E slot \in Slots: ReaderLoad(slot, FileB)
  \/ clearAllImages

SpecStage == Init /\ [][NextStage]_vars

(***************************************************************************)
(* SpecLimit: searching with the result-limit field edited.                *)
(***************************************************************************)
LimitResults ==
  {Wrapped(<<FoodApple, FoodBanana, FoodNoId>>), Wrapped(<<FoodApple, FoodBanana>>),
   Wrapped(<<>>)}

NextLimit ==
  \/ \E v \in {NULL, Num(0), Num(500)}: SetLimit(v)
  \/ setMaxLimit
  \/ SetQuery(<<" ", "A", "P">>)
  \/ \E b \in BOOLEAN: SetYehApproved(b)
  \/ (searchReqs = <<>> /\ performSearch)
  \/ \E r \in LimitResults: SearchNext(1, r)
  \/ SearchError(1, HttpError(500, FALSE))

SpecLimit == Init /\ [][NextLimit]_vars

\* The multi-select handlers between searches.  The records offered to the
\* checkbox handlers are those of the list shown, and the absent record.
SelectResults ==
  {Wrapped(<<FoodApple, FoodBanana>>), Wrapped(<<FoodNoId, FoodBanana>>),
   Single(FoodApple), Wrapped(<<>>)}

NextSelect ==
  \/ SetQuery(<<" ", "A", "P">>)
  \/ (searchReqs = <<>> /\ performSearch)
  \/ \E r \in SelectResults : SearchNext(1, r)
  \/ SearchError(1, HttpError(500, FALSE))
  \/ \E food \in {foods[i] : i \in DOMAIN foods} \cup {NULL} :
       toggleFoodSelection(food)
  \/ \E food \in {foods[i] : i \in DOMAIN foods} \cup {NULL} :
       isFoodSelected(food)
  \/ selectAllFoods
  \/ clearAllSelections

SpecSelect == Init /\ [][NextSelect]_vars

\* The nutrient table: records with all four source fields, with some of
\* them absent or null, without nutrition facts, and with an absent or zero
\* serving multiplicand; selection and the display-mode toggle between
\* searches.
FoodZeroServing ==
  MkFood(Num(3), Str(<<"z">>), UNDEFINED, UNDEFINED, UNDEFINED,
         Facts(NULL, Num(1234), Num(25), Num(5050), Num(0)), Num(0))

NutrientResults ==
  {Wrapped(<<FoodApple, FoodBanana>>), Wrapped(<<FoodZeroServing, FoodNoId>>),
   Single(FoodBanana), Wrapped(<<>>)}

NextNutrients ==
  \/ SetQuery(<<" ", "A", "P">>)
  \/ (searchReqs = <<>> /\ performSearch)
  \/ \E r \in NutrientResults : SearchNext(1, r)
  \/ SearchError(1, HttpError(500, FALSE))
  \/ \E index \in -1..MaxResults : onFoodSelected(index)
  \/ toggleServingMode

SpecNutrients == Init /\ [][NextNutrients]_vars

(***************************************************************************)
(* SpecRetry: the three backend operations with their failures, under the  *)
(* assumption that every request issued is answered: a pending search or   *)
(* save request eventually gets its response or its error, and the request *)
(* an upload run waits for eventually settles.                             *)
(***************************************************************************)
SearchAnswered ==
  \E i \in DOMAIN searchReqs :
    \/ SearchNext(i, Single(FoodApple))
    \/ SearchError(i, HttpError(500, FALSE))

SaveAnswered ==
  \E i \in DOMAIN saveReqs :
    \/ \E f \in PatchResponses(saveReqs[i]) : SaveNext(i, f)
    \/ SaveError(i, HttpError(500, FALSE))

\* The request run i waits for settles to o.  The step is named by its
\* event first, then taken.
UploadAnswered ==
  \E i \in DOMAIN uploadRuns : \E o \in UploadSettles :
    \/ /\ ev' = [kind |-> "nutritionSettled", i |-> i, run |-> uploadRuns[i],
                 outcome |-> o]
       /\ NutritionSettled(i, o)
    \/ /\ ev' = [kind |-> "productSettled", i |-> i, run |-> uploadRuns[i],
                 outcome |-> o]
       /\ ProductSettled(i, o)

\* The user starts an operation while all three are at rest.
NextRetry ==
  \/ (searchReqs = <<>> /\ SetQuery(<<" ", "A", "P">>))
  \/ (searchReqs = <<>> /\ saveReqs = <<>> /\ uploadRuns = <<>> /\ performSearch)
  \/ SearchAnswered
  \/ (saveReqs = <<>> /\ EditShortDescription(Str("")))
  \/ (searchReqs = <<>> /\ uploadRuns = <<>> /\ saveMetadata)
  \/ SaveAnswered
  \/ (uploadRuns = <<>> /\ ngOnChanges(Num(7), NULL, NULL))
  \/ (uploadRuns = <<>> /\ onNutritionFileSelected(<<FileA>>))
  \/ (uploadRuns = <<>> /\ onProductFileSelected(<<FileA>>))
  \/ (searchReqs = <<>> /\ saveReqs = <<>> /\ uploadRuns = <<>> /\ uploadImages)
  \/ UploadAnswered

\* Each answer removes a request from its queue, or replaces or removes the
\* run that waited for it, so each fairness condition is stated over the
\* queue its action changes.
SpecRetry ==
  /\ Init
  /\ [][NextRetry]_vars
  /\ WF_searchReqs(SearchAnswered)
  /\ WF_saveReqs(SaveAnswered)
  /\ WF_uploadRuns(UploadAnswered)

(***************************************************************************)
(* SpecRerun: uploadImages called again, and the foodId input changed by   *)
(* the parent, while a run waits for a request.                            *)
(***************************************************************************)
NextRerun ==
  \/ \E id \in {Num(7), Num(8)} : ngOnChanges(id, NULL, NULL)
  \/ onNutritionFileSelected(<<FileA>>)
  \/ onProductFileSelected(<<FileB>>)
  \/ uploadImages
  \/ \E i \in DOMAIN uploadRuns : \E o \in UploadSettles : NutritionSettled(i, o)
  \/ \E i \in DOMAIN uploadRuns : \E o \in UploadSettles : ProductSettled(i, o)

SpecRerun == Init /\ [][NextRerun]_vars

(***************************************************************************)
(* Claims.                                                                 *)
(***************************************************************************)

\* C1: in every reachable state the focused index is -1 with an empty result
\* list, or lies in 0 .. len(foods) - 1.
C1_FocusIndexInRange ==
  \/ selectedIndex = -1 /\ foods = <<>>
  \/ 0 <= selectedIndex /\ selectedIndex < Len(foods)

\* C2: right after a successful search response, a non-empty shown list has
\* index 0 and its first record focused; an empty one has index -1, no
\* focused record, a null form and snapshot and an empty nutrient table; the
\* index is -1 exactly when the list is empty.
C2_AutoFocusAfterSearch ==
  ev.kind = "searchNext" =>
    /\ foods = ShownFoods(ev.req, ev.results)
    /\ foods # <<>> => selectedIndex = 0 /\ selectedFood = foods[1]
    /\ foods = <<>> =>
         /\ selectedIndex = -1
         /\ selectedFood = NULL
         /\ FormValues = NoMetadata
         /\ originalMetadata = NoMetadata
         /\ nutrientTableData = <<>>
    /\ selectedIndex = -1 <=> foods = <<>>

\* C2 witness: a response of two records of which the client-side filter
\* keeps one, which is focused.
C2_Witness ==
  /\ ev.kind = "searchNext"
  /\ ev.req.isYehApproved
  /\ Len(NormalizeResults(ev.results)) = 2
  /\ Len(foods) = 1
  /\ selectedIndex = 0

\* C3: whatever the order in which overlapping searches were issued, after a
\* response is processed the list, the focus and the result-count field are
\* those of that response (after a failure: empty list, no focused record).
C3_LastResponseWins ==
  /\ ev.kind = "searchNext" =>
       /\ foods = ShownFoods(ev.req, ev.results)
       /\ limitControl = Num(Len(ShownFoods(ev.req, ev.results)))
       /\ selectedIndex = IF ShownFoods(ev.req, ev.results) = <<>> THEN -1 ELSE 0
       /\ selectedFood =
            IF ShownFoods(ev.req, ev.results) = <<>> THEN NULL
            ELSE ShownFoods(ev.req, ev.results)[1]
  /\ ev.kind = "searchError" => foods = <<>> /\ selectedFood = NULL

\* C3 witness: both of two overlapping searches are answered, and the
\* response processed last is the one to the request issued first.
C3_Witness ==
  /\ ev.kind = "searchNext"
  /\ ev.req.overtaken
  /\ searchReqs = <<>>
  /\ foods # <<>>

\* C4: a saveMetadata call issues a request exactly when a record with an id
\* is focused and a form field differs from the snapshot; with a focused
\* record and an unchanged form it issues none and reports "No changes to
\* save".
C4_SaveIssuesIffChanged ==
  [][ev'.kind = "saveMetadata" =>
       /\ (Len(saveReqs') = Len(saveReqs) + 1
             <=> HasId(selectedFood) /\ hasMetadataChanges)
       /\ (Len(saveReqs') # Len(saveReqs) + 1 => saveReqs' = saveReqs)
       /\ (HasId(selectedFood) /\ ~hasMetadataChanges =>
             snackBar' = Toast("No changes to save"))]_vars

\* C4 witness: a save that issued a request for a focused record.
C4_Witness ==
  /\ ev.kind = "saveMetadata"
  /\ ev.issued
  /\ Len(saveReqs) = 1
  /\ HasId(selectedFood)
  /\ hasMetadataChanges

\* C5: after a successful save response the focused record and the list
\* entry with its id are the returned record, the snapshot holds its three
\* fields, and a save right after it would issue no request.  Stated for a
\* response that is the update applied to the record the save was issued
\* for, with the form still as it was sent.
C5_SavedThenResaveIsNoOp ==
  ( /\ ev.kind = "saveNext"
    /\ ev.updatedFood = ApplyUpdate(ev.req.base, ev.req.update)
    /\ BuildUpdate(FormValues, MetadataOf(ev.req.base)) = ev.req.update )
  =>
    /\ selectedFood = ev.updatedFood
    /\ \A i \in 1..Len(foods) :
         FindIndexById(foods, ev.updatedFood.id) = i - 1 => foods[i] = ev.updatedFood
    /\ originalMetadata = MetadataOf(ev.updatedFood)
    /\ ~(HasId(selectedFood) /\ hasMetadataChanges)

\* C6: the update a save sends holds exactly the fields that differ from the
\* snapshot, each with its form value, an empty shortDescription as null.
C6_UpdateHoldsChangedFields ==
  (ev.kind = "saveMetadata" /\ ev.issued) =>
    LET update == saveReqs[Len(saveReqs)].update
        Sent(f) == f \in DOMAIN update
    IN /\ Sent("shortDescription")
            <=> shortDescriptionControl # originalMetadata.shortDescription
       /\ Sent("glycemicIndex")
            <=> glycemicIndexControl # originalMetadata.glycemicIndex
       /\ Sent("glycemicLoad")
            <=> glycemicLoadControl # originalMetadata.glycemicLoad
       /\ DOMAIN update \subseteq MetadataFields
       /\ Sent("shortDescription") =>
            /\ update.shortDescription # Str("")
            /\ update.shortDescription =
                 IF shortDescriptionControl = Str("") THEN NULL
                 ELSE shortDescriptionControl
       /\ Sent("glycemicIndex") => update.glycemicIndex = glycemicIndexControl
       /\ Sent("glycemicLoad") => update.glycemicLoad = glycemicLoadControl

\* C6 witness: a save with the shortDescription field emptied, sent as null.
C6_Witness ==
  /\ ev.kind = "saveMetadata"
  /\ ev.issued
  /\ shortDescriptionControl = Str("")
  /\ saveReqs[Len(saveReqs)].update.shortDescription = NULL

\* C7: the error callback of a save leaves the form, the snapshot, the list
\* and the focus as they are, sets isSavingMetadata to false and reports the
\* error.
C7_SaveErrorKeepsState ==
  [][ev'.kind = "saveError" =>
       /\ UNCHANGED <<formVars, originalMetadata, foods, selectedFood,
                      selectedIndex>>
       /\ isSavingMetadata' = FALSE
       /\ snackBar' = handleError(ev'.error, "Failed to save metadata")
       /\ "message" \in DOMAIN snackBar']_vars

\* C7 witness: a save failed while the form still holds unsaved edits.
C7_Witness ==
  /\ ev.kind = "saveError"
  /\ hasMetadataChanges
  /\ ~isSavingMetadata

\* C8: for each upload slot and each uploadImages run, also when staging or
\* removal for that slot interleaves with the requests in flight, the step
\* in which a request settles clears the slot's pending file if and only if
\* that request succeeded and carried the file the slot holds; after a
\* failed request the slot keeps its staged file.
C8_ClearedIffOwnRequestSucceeded ==
  [][/\ ev'.kind = "nutritionSettled" =>
          LET req == ev'.run.req
              ok == Succeeded(ev'.outcome)
          IN /\ nutritionImageFile # NULL =>
                  (nutritionImageFile' = NULL
                     <=> (ok /\ req.nutritionImage = nutritionImageFile))
             /\ ingredientsImageFile # NULL =>
                  (ingredientsImageFile' = NULL
                     <=> (ok /\ req.ingredientsImage = ingredientsImageFile))
             /\ productImageFile' = productImageFile
     /\ ev'.kind = "productSettled" =>
          LET req == ev'.run.req
              ok == Succeeded(ev'.outcome)
          IN /\ productImageFile # NULL =>
                  (productImageFile' = NULL
                     <=> (ok /\ req.image = productImageFile))
             /\ nutritionImageFile' = nutritionImageFile
             /\ ingredientsImageFile' = ingredientsImageFile]_vars

\* C9: when a preview decode completes, its result is applied to the slot's
\* preview only if the slot's pending file is still the file the decode was
\* started for; otherwise the preview is left unchanged.
C9_DecodeAppliedOnlyToCurrentFile ==
  [][\A slot \in Slots:
       (ev'.kind = "readerLoad" /\ ev'.slot = slot /\ SlotFile(slot) # ev'.file)
         => SlotPreview(slot)' = SlotPreview(slot)]_vars

C11_AtMostTwoRequests ==
  [][LET passed == Truthy(foodId)
                     /\ (nutritionImageFile # NULL \/ productImageFile # NULL
                           \/ ingredientsImageFile # NULL)
         last == uploadRuns'[Len(uploadRuns')]
     IN /\ (ev'.kind = "uploadImages" /\ passed /\ nutritionImageFile # NULL)
             => /\ Len(uploadRuns') = Len(uploadRuns) + 1
                /\ SubSeq(uploadRuns', 1, Len(uploadRuns)) = uploadRuns
                /\ last.pc = "nutrition"
                /\ last.req.endpoint = "/api/image/upload/nutrition"
                /\ last.req.nutritionImage = nutritionImageFile
                /\ last.req.ingredientsImage =
                     IF ingredientsImageFile # NULL THEN ingredientsImageFile
                     ELSE UNDEFINED
        /\ (ev'.kind = "uploadImages" /\ passed /\ nutritionImageFile = NULL
              /\ productImageFile # NULL)
             => /\ Len(uploadRuns') = Len(uploadRuns) + 1
                /\ SubSeq(uploadRuns', 1, Len(uploadRuns)) = uploadRuns
                /\ last.pc = "product"
                /\ last.req = [endpoint |-> "/api/image/upload/product",
                               foodId |-> foodId, image |-> productImageFile]
        /\ (ev'.kind = "uploadImages"
              /\ (~passed
                    \/ (nutritionImageFile = NULL /\ productImageFile = NULL)))
             => uploadRuns' = uploadRuns
        /\ ev'.kind = "nutritionSettled"
             => \/ /\ Len(uploadRuns') = Len(uploadRuns) - 1
                   /\ \A r \in DOMAIN uploadRuns':
                        uploadRuns'[r] = uploadRuns[IF r < ev'.i THEN r ELSE r + 1]
                \/ /\ productImageFile # NULL
                   /\ Len(uploadRuns') = Len(uploadRuns)
                   /\ \A r \in DOMAIN uploadRuns \ {ev'.i}:
                        uploadRuns'[r] = uploadRuns[r]
                   /\ uploadRuns'[ev'.i].pc = "product"
                   /\ DOMAIN uploadRuns'[ev'.i].req =
                        {"endpoint", "foodId", "image"}
                   /\ uploadRuns'[ev'.i].req.endpoint =
                        "/api/image/upload/product"
                   /\ uploadRuns'[ev'.i].req.image = productImageFile
        /\ ev'.kind = "productSettled"
             => /\ Len(uploadRuns') = Len(uploadRuns) - 1
                /\ \A r \in DOMAIN uploadRuns':
                     uploadRuns'[r] = uploadRuns[IF r < ev'.i THEN r ELSE r + 1]
        /\ ev'.kind \notin {"uploadImages", "nutritionSettled", "productSettled"}
             => uploadRuns' = uploadRuns]_vars

\* C11 witness: the nutrition request of a run is in flight and carries the
\* staged ingredients file, with a product file staged as well.
C11_Witness ==
  /\ uploadRuns # <<>>
  /\ uploadRuns[1].pc = "nutrition"
  /\ uploadRuns[1].req.ingredientsImage = FileB
  /\ productImageFile # NULL

\* C12: when an uploadImages run that passed its pre-checks completes, the
\* notification shown either names exactly the kinds that succeeded, in the
\* order Nutrition facts, Ingredients, Product, or, when no kind succeeded,
\* reports the failure with the warnings of the run.
C12_CompletionIsReported ==
  [][LET ended ==
           \/ ev'.kind = "productSettled"
           \/ ev'.kind = "nutritionSettled"
                /\ Len(uploadRuns') = Len(uploadRuns) - 1
           \/ ev'.kind = "uploadImages" /\ Truthy(foodId)
                /\ nutritionImageFile = NULL /\ productImageFile = NULL
                /\ ingredientsImageFile # NULL
         settled == ev'.kind \in {"productSettled", "nutritionSettled"}
         nutrition ==
           IF ev'.kind = "nutritionSettled" THEN Succeeded(ev'.outcome)
           ELSE IF settled THEN ev'.run.nutritionUploaded ELSE FALSE
         ingredients ==
           IF ev'.kind = "nutritionSettled"
           THEN Succeeded(ev'.outcome) /\ ingredientsImageFile # NULL
           ELSE IF settled THEN ev'.run.ingredientsUploaded ELSE FALSE
         product == ev'.kind = "productSettled" /\ Succeeded(ev'.outcome)
         kinds ==
           (IF nutrition THEN <<"Nutrition facts">> ELSE <<>>)
           \o (IF ingredients THEN <<"Ingredients">> ELSE <<>>)
           \o (IF product THEN <<"Product">> ELSE <<>>)
         failures ==
           (IF settled THEN Len(ev'.run.warnings) ELSE 0)
           + (IF settled /\ Rejected(ev'.outcome) THEN 1 ELSE 0)
     IN ended =>
          /\ DOMAIN snackBar' = {"message", "items"}
          /\ IF kinds # <<>>
             THEN /\ snackBar'.items = kinds
                  /\ snackBar'.message =
                       IF Len(kinds) = 1 THEN " image uploaded successfully!"
                       ELSE " images uploaded successfully!"
             ELSE /\ snackBar'.message = "Upload failed: "
                  /\ Len(snackBar'.items) = failures]_vars

\* C13: a step that ends an uploadImages run emits the "images uploaded"
\* event followed by the "refresh requested" event, once each, exactly when
\* at least one kind succeeded in the run, and nothing otherwise; a step that
\* does not end a run emits nothing.  Each per-kind flag is true exactly when
\* that kind's file was carried by a request of this run that succeeded.
\* The widget sends only its two upload requests and no search request.
C13_EventsMatchWhatWasUploaded ==
  [][LET settled == ev'.kind \in {"productSettled", "nutritionSettled"}
         ended ==
           \/ ev'.kind = "productSettled"
           \/ ev'.kind = "nutritionSettled"
                /\ Len(uploadRuns') = Len(uploadRuns) - 1
         nutrition ==
           IF ev'.kind = "nutritionSettled" THEN Succeeded(ev'.outcome)
           ELSE ev'.run.nutritionUploaded
         ingredients ==
           IF ev'.kind = "nutritionSettled"
           THEN Succeeded(ev'.outcome)
                /\ ev'.run.req.ingredientsImage # UNDEFINED
           ELSE ev'.run.ingredientsUploaded
         product == ev'.kind = "productSettled" /\ Succeeded(ev'.outcome)
     IN /\ (settled /\ ended /\ (nutrition \/ ingredients \/ product))
             => /\ Len(emitted') = 2
                /\ emitted'[1].event = "imagesUploaded"
                /\ emitted'[2] = [event |-> "refreshFood"]
                /\ emitted'[1].value.success
                /\ emitted'[1].value.nutritionImageUploaded = nutrition
                /\ emitted'[1].value.ingredientsImageUploaded = ingredients
                /\ emitted'[1].value.productImageUploaded = product
        /\ (settled /\ ended /\ ~(nutrition \/ ingredients \/ product))
             => emitted' = <<>>
        /\ (settled /\ ~ended)
             => /\ emitted' = <<>>
                /\ uploadRuns'[ev'.i].nutritionUploaded = nutrition
                /\ uploadRuns'[ev'.i].ingredientsUploaded = ingredients
        /\ ev'.kind = "uploadImages" => emitted' \in {<<>>, emitted}
        /\ ev'.kind \in {"uploadImages", "productSettled", "nutritionSettled"}
             => /\ searchReqs' = searchReqs
                /\ \A r \in DOMAIN uploadRuns':
                     uploadRuns'[r].req.endpoint \in
                       {"/api/image/upload/nutrition",
                        "/api/image/upload/product"}]_vars

\* C14: with a food id and only the ingredients slot staged, uploadImages
\* sends no request, leaves the ingredients slot staged, emits no event and
\* leaves a notification on display telling the user the submit was rejected.
C14_IngredientsAloneIsRejected ==
  [][(ev'.kind = "uploadImages" /\ Truthy(foodId) /\ nutritionImageFile = NULL
        /\ productImageFile = NULL /\ ingredientsImageFile # NULL)
       => /\ uploadRuns' = uploadRuns
          /\ ingredientsImageFile' = ingredientsImageFile
          /\ emitted' = <<>>
          /\ "message" \in DOMAIN snackBar']_vars

\* C15: uploadImages called with all three slots empty, or with a slot
\* staged (whichever kind) and no food id, sends no request, leaves every
\* slot's file and preview and isUploading as they are (false unless another
\* run is in flight) and shows the notification of the pre-check that
\* rejected the call.
C15_PreChecksRejectTheCall ==
  [][LET allEmpty == nutritionImageFile = NULL /\ productImageFile = NULL
                       /\ ingredientsImageFile = NULL
     IN (ev'.kind = "uploadImages" /\ (allEmpty \/ ~Truthy(foodId)))
          => /\ UNCHANGED <<uploadRuns, slotVars, isUploading, emitted>>
             /\ (uploadRuns = <<>> => isUploading' = FALSE)
             /\ snackBar' =
                  IF allEmpty
                  THEN Toast("Please select at least one image to upload")
                  ELSE Toast("No Food ID for image upload")]_vars

\* C15 witness: a call with only the product slot staged and no food id was
\* rejected.
C15_Witness ==
  /\ ev.kind = "uploadImages"
  /\ foodId = NULL
  /\ nutritionImageFile = NULL
  /\ ingredientsImageFile = NULL
  /\ productImageFile # NULL
  /\ snackBar = Toast("No Food ID for image upload")
  /\ uploadRuns = <<>>

\* C16: every nutrition upload request in flight goes to the nutrition
\* upload endpoint and is made of the parts foodId (the widget's food id when
\* the request was sent), nutritionImage and, only when an ingredients file
\* was staged, ingredientsImage; no part is a description.
C16_NutritionRequestKeyedByFoodId ==
  \A r \in DOMAIN uploadRuns:
    uploadRuns[r].pc = "nutrition" =>
      LET req == uploadRuns[r].req
      IN /\ req.endpoint = "/api/image/upload/nutrition"
         /\ DOMAIN req =
              {"endpoint", "foodId", "nutritionImage", "ingredientsImage"}
         /\ "description" \notin DOMAIN req
         /\ req.foodId.k = "number"
         /\ req.nutritionImage # NULL

\* C17 as stated: a file offered to a slot by drop, pick or paste (the first
\* file of a drop or pick, every file among the pasted items) is staged if
\* and only if its declared type starts with image/ and its size is at most
\* 10 MiB; a rejected file produces the notification of its rejection and
\* leaves the slot's pending file and preview unchanged.
C17_StagedIffValid ==
  [][\A slot \in Slots:
       (ev'.kind \in {"onDrop", "onFileSelected", "onPaste"} /\ ev'.slot = slot)
         => LET fs == IF ev'.kind = "onPaste"
                      THEN LET WithFile[k \in 0..Len(ev'.items)] ==
                                 IF k = 0 THEN <<>>
                                 ELSE WithFile[k - 1]
                                      \o (IF ev'.items[k].file # NULL
                                          THEN <<ev'.items[k].file>> ELSE <<>>)
                           IN WithFile[Len(ev'.items)]
                      ELSE IF Len(ev'.files) > 0 THEN <<ev'.files[1]>> ELSE <<>>
                Ok(f) == /\ Len(f.type) >= 6
                         /\ SubSeq(f.type, 1, 6) = <<"i", "m", "a", "g", "e", "/">>
                         /\ f.size <= 10 * 1024 * 1024
                accepted == {k \in DOMAIN fs: Ok(fs[k])}
                rejected == DOMAIN fs \ accepted
                Last(S) == CHOOSE k \in S: \A l \in S: l <= k
            IN /\ accepted # {} =>
                    /\ SlotFile(slot)' = fs[Last(accepted)]
                    /\ \A k \in accepted:
                         [slot |-> slot, file |-> fs[k]] \in readers'
               /\ accepted = {} =>
                    /\ SlotFile(slot)' = SlotFile(slot)
                    /\ readers' = readers
               /\ rejected # {} =>
                    snackBar' =
                      IF fs[Last(rejected)].size <= 10 * 1024 * 1024
                         \/ ~(Len(fs[Last(rejected)].type) >= 6
                              /\ SubSeq(fs[Last(rejected)].type, 1, 6) =
                                   <<"i", "m", "a", "g", "e", "/">>)
                      THEN Toast("Please select an image file")
                      ELSE Toast("File size must be less than 10MB")
               /\ rejected = {} => snackBar' = snackBar
               /\ UNCHANGED previewVars
               /\ \A other \in Slots \ {slot}:
                    SlotFile(other)' = SlotFile(other)]_vars

\* C17 amended: as above, except that a pasted item whose own type does not
\* start with image/ is not offered at all: it is skipped without a
\* notification.
C17_StagedIffValidImageItems ==
  [][\A slot \in Slots:
       (ev'.kind \in {"onDrop", "onFileSelected", "onPaste"} /\ ev'.slot = slot)
         => LET fs == IF ev'.kind = "onPaste"
                      THEN LET ImageFile[k \in 0..Len(ev'.items)] ==
                                 IF k = 0 THEN <<>>
                                 ELSE ImageFile[k - 1]
                                      \o (IF ev'.items[k].file # NULL
                                             /\ Len(ev'.items[k].type) >= 6
                                             /\ SubSeq(ev'.items[k].type, 1, 6)
                                                  = <<"i", "m", "a", "g", "e",
                                                      "/">>
                                          THEN <<ev'.items[k].file>> ELSE <<>>)
                           IN ImageFile[Len(ev'.items)]
                      ELSE IF Len(ev'.files) > 0 THEN <<ev'.files[1]>> ELSE <<>>
                Ok(f) == /\ Len(f.type) >= 6
                         /\ SubSeq(f.type, 1, 6) = <<"i", "m", "a", "g", "e", "/">>
                         /\ f.size <= 10 * 1024 * 1024
                accepted == {k \in DOMAIN fs: Ok(fs[k])}
                rejected == DOMAIN fs \ accepted
                Last(S) == CHOOSE k \in S: \A l \in S: l <= k
            IN /\ accepted # {} =>
                    /\ SlotFile(slot)' = fs[Last(accepted)]
                    /\ \A k \in accepted:
                         [slot |-> slot, file |-> fs[k]] \in readers'
               /\ accepted = {} =>
                    /\ SlotFile(slot)' = SlotFile(slot)
                    /\ readers' = readers
               /\ rejected # {} =>
                    snackBar' =
                      IF fs[Last(rejected)].size <= 10 * 1024 * 1024
                         \/ ~(Len(fs[Last(rejected)].type) >= 6
                              /\ SubSeq(fs[Last(rejected)].type, 1, 6) =
                                   <<"i", "m", "a", "g", "e", "/">>)
                      THEN Toast("Please select an image file")
                      ELSE Toast("File size must be less than 10MB")
               /\ rejected = {} => snackBar' = snackBar
               /\ UNCHANGED previewVars
               /\ \A other \in Slots \ {slot}:
                    SlotFile(other)' = SlotFile(other)]_vars

\* C17 witness: a paste offered a file of exactly 10 MiB, which was staged,
\* and then a larger one, which was rejected with its notification.
C17_Witness ==
  /\ ev.kind = "onPaste"
  /\ Len(ev.items) = 3
  /\ SlotFile(ev.slot) = FileB
  /\ FileB.size = 10 * 1024 * 1024
  /\ snackBar = Toast("File size must be less than 10MB")

\* C18: after the error callback of a search request the result list is
\* empty, no record is focused (selectedFood is null and the focused index
\* is -1), isLoading is false and an error notification is on display.
C18_SearchErrorClearsResultsAndFocus ==
  ev.kind = "searchError" =>
    /\ foods = <<>>
    /\ selectedFood = NULL
    /\ selectedIndex = -1
    /\ isLoading = FALSE
    /\ snackBar = handleError(ev.error, "Failed to search foods")
    /\ "message" \in DOMAIN snackBar

\* C19: performSearch with approved-only off and a trimmed query of fewer
\* than 2 characters sends no request and changes no state (isLoading stays
\* as it is); with approved-only on it sends the approved-only request
\* whatever the query, the empty one included; with approved-only off and a
\* trimmed query of at least 2 characters it sends the regular search
\* request for the trimmed query; a call that sends sets isLoading.
C19_SearchPrecondition ==
  [][ev'.kind = "performSearch" =>
       LET q == Trim(searchControl)
       IN IF ~yehApprovedControl /\ Len(q) < 2
          THEN /\ UNCHANGED <<foodsVars, uploadVars, snackBar>>
               /\ (isLoading = FALSE => isLoading' = FALSE)
          ELSE /\ Len(searchReqs') = Len(searchReqs) + 1
               /\ SubSeq(searchReqs', 1, Len(searchReqs)) = searchReqs
               /\ searchReqs'[Len(searchReqs')].isYehApproved = yehApprovedControl
               /\ searchReqs'[Len(searchReqs')].query = q
               /\ ev'.endpoint = IF yehApprovedControl
                                 THEN "searchYehApprovedFoods" ELSE "searchFoods"
               /\ isLoading' = TRUE]_vars

\* C19 witness: a call with a query of two characters that trims to one,
\* approved-only off, sent nothing.
C19_Witness ==
  /\ ev.kind = "performSearch"
  /\ ~ev.issued
  /\ ~yehApprovedControl
  /\ Len(searchControl) = 2
  /\ Len(Trim(searchControl)) = 1
  /\ searchReqs = <<>>
  /\ ~isLoading

\* C20: the limit parameter of every search request performSearch sends is
\* the value of the limit field, 50 when the field is unset, and is never
\* above 200.
C20_LimitIsFieldValueAtMost200 ==
  [][(ev'.kind = "performSearch" /\ Len(searchReqs') = Len(searchReqs) + 1)
       => LET req == searchReqs'[Len(searchReqs')]
          IN /\ req.limit = IF limitControl = NULL THEN Num(50) ELSE limitControl
             /\ req.limit.v <= 200]_vars

\* C21: after a successful search response the result-count field holds the
\* number of records shown (the response normalised and filtered), whatever
\* limit was requested, the notification states that count, and the first
\* shown record is focused.
C21_CountFieldIsShownCount ==
  ev.kind = "searchNext" =>
    /\ foods = ShownFoods(ev.req, ev.results)
    /\ limitControl = Num(Len(foods))
    /\ snackBar = IF Len(foods) = 0
                  THEN [message |-> "No foods found. Count: ", n |-> 0]
                  ELSE [message |-> "Foods returned: ", n |-> Len(foods)]
    /\ foods # <<>> => selectedIndex = 0 /\ selectedFood = foods[1]

\* C21 witness: a regular search with limit 50 answered with 3 records.
C21_Witness ==
  /\ ev.kind = "searchNext"
  /\ ~ev.req.isYehApproved
  /\ ev.req.limit = Num(50)
  /\ Len(NormalizeResults(ev.results)) = 3
  /\ limitControl = Num(3)
  /\ selectedIndex = 0
  /\ selectedFood = FoodApple
  /\ snackBar = [message |-> "Foods returned: ", n |-> 3]

\* C22: after the response to an approved-only search with a non-empty
\* trimmed query, the result list is the subsequence, in backend order, of
\* the returned records whose description contains the query when both are
\* lower-cased; after the response to an approved-only search with an empty
\* query, or to a regular search, it is the returned records unfiltered.
C22_ApprovedOnlyFilter ==
  ev.kind = "searchNext" =>
    LET all == NormalizeResults(ev.results)
        q == ToLowerCase(ev.req.query)
        Contains(d) ==
          \E k \in 0..(Len(d) - Len(q)):
            \A j \in 1..Len(q): ToLowerCase(d)[k + j] = q[j]
        keep == {i \in DOMAIN all:
                   /\ all[i].description # UNDEFINED
                   /\ Contains(all[i].description.v)}
        Nth(n) == CHOOSE i \in keep: Cardinality({j \in keep: j <= i}) = n
    IN IF ev.req.isYehApproved /\ ev.req.query # <<>>
       THEN /\ Len(foods) = Cardinality(keep)
            /\ \A n \in DOMAIN foods: foods[n] = all[Nth(n)]
       ELSE foods = all

\* C22 witness: an approved-only search for "AP" answered with two records,
\* of which only the second, "Ap", is shown.
C22_Witness ==
  /\ ev.kind = "searchNext"
  /\ ev.req.isYehApproved
  /\ ev.req.query = <<"A", "P">>
  /\ NormalizeResults(ev.results) = <<FoodBanana, FoodApple>>
  /\ foods = <<FoodApple>>

\* C23: onFoodSelected(index) with index outside 0 <= index < len(foods)
\* changes no state; with index in range it sets selectedIndex to index and
\* selectedFood to foods[index], sets the form and the snapshot to the three
\* metadata fields of that record (absent as null), so that
\* hasMetadataChanges is false afterwards, and sets the nutrient table to
\* the table of that record.
C23_SelectInRangeOnly ==
  [][ev'.kind = "onFoodSelected" =>
       LET index == ev'.index
       IN IF index >= 0 /\ index < Len(foods)
          THEN /\ selectedIndex' = index
               /\ selectedFood' = foods[index + 1]
               /\ FormValues' = MetadataOf(foods[index + 1])
               /\ originalMetadata' = MetadataOf(foods[index + 1])
               /\ ~hasMetadataChanges'
               /\ nutrientTableData' =
                    getNutrients(foods[index + 1], showPerServing)
          ELSE UNCHANGED <<foodsVars, uploadVars, snackBar, saveCalls>>]_vars

\* C23 witness: the second of two records was selected; its absent
\* shortDescription is shown as null.
C23_Witness ==
  /\ ev.kind = "onFoodSelected" /\ ev.index = 1
  /\ foods = <<FoodApple, FoodBanana>>
  /\ selectedIndex = 1 /\ selectedFood = FoodBanana
  /\ shortDescriptionControl = NULL
  /\ originalMetadata = MetadataOf(FoodBanana)

\* C24: ArrowDown moves the focus from an index below the last one to the
\* next index and ArrowUp from an index above 0 to the previous one; a key
\* that changes the index changes it by one to an index in [0, len(foods)-1];
\* ArrowUp at index 0, ArrowDown at the last index, and either key with an
\* empty list change no state.
C24_ArrowKeysClamp ==
  [][ev'.kind = "onListKeydown" /\ ev'.key \in {"ArrowDown", "ArrowUp"} =>
       LET d == IF ev'.key = "ArrowDown" THEN 1 ELSE -1
           NoChange == UNCHANGED <<foodsVars, uploadVars, snackBar, saveCalls>>
       IN /\ selectedIndex' # selectedIndex =>
               /\ selectedIndex' = selectedIndex + d
               /\ selectedIndex' >= 0 /\ selectedIndex' < Len(foods)
          /\ (selectedIndex >= 0 /\ selectedIndex < Len(foods)
                /\ selectedIndex + d >= 0 /\ selectedIndex + d < Len(foods)) =>
               /\ selectedIndex' = selectedIndex + d
               /\ selectedFood' = foods[selectedIndex + d + 1]
          /\ (ev'.key = "ArrowUp" /\ selectedIndex = 0) => NoChange
          /\ (ev'.key = "ArrowDown" /\ selectedIndex = Len(foods) - 1) => NoChange
          /\ foods = <<>> => NoChange]_vars

\* C24 witness: ArrowUp was pressed on a list of two records and the focus is
\* on the first.
C24_Witness ==
  /\ ev.kind = "onListKeydown" /\ ev.key = "ArrowUp"
  /\ Len(foods) = 2 /\ selectedIndex = 0 /\ selectedFood = foods[1]
  /\ originalMetadata = MetadataOf(foods[1])

\* C25: toggleFoodSelection on a record with a valid id changes the
\* membership of that id in the checked set and of no other id, so that a
\* second toggle of the same record right after the first restores the
\* membership the set had; on a record without a valid id it leaves the set
\* as it is; isFoodSelected answers whether the record's id is a member and
\* changes no state.
C25_ToggleFlipsOneId ==
  [][
    /\ (ev'.kind = "toggleFoodSelection" =>
          LET food == ev'.food
              old == Members(selectedFoodIds)
          IN /\ IF food # NULL /\ Truthy(food.id)
                THEN Members(selectedFoodIds') =
                       IF food.id \in old THEN old \ {food.id}
                       ELSE old \cup {food.id}
                ELSE selectedFoodIds' = selectedFoodIds
             /\ (ev.kind = "toggleFoodSelection" /\ ev.food = food) =>
                  Members(selectedFoodIds') = Members(ev.before))
    /\ (ev'.kind = "isFoodSelected" =>
          /\ UNCHANGED <<foodsVars, uploadVars, snackBar, saveCalls>>
          /\ ev'.result = (/\ ev'.food # NULL
                           /\ ev'.food.id \in Members(selectedFoodIds)))
  ]_vars

\* C25 witness: a checked record was unchecked while another id stays checked.
C25_Witness ==
  /\ ev.kind = "toggleFoodSelection"
  /\ ev.food # NULL /\ Truthy(ev.food.id)
  /\ ev.food.id \in Members(ev.before)
  /\ ev.food.id \notin Members(selectedFoodIds)
  /\ selectedFoodIds # <<>>

\* C26: selectAllFoods leaves in the checked set every id it held and every
\* id of a record of the current result list, and nothing else;
\* clearAllSelections leaves the set empty whatever it held, hence also
\* when it follows a selectAllFoods and any number of toggles.
C26_SelectAllAddsClearEmpties ==
  [][
    /\ (ev'.kind = "selectAllFoods" =>
          LET listed == {foods[i].id : i \in DOMAIN foods} \ {UNDEFINED}
          IN Members(selectedFoodIds') = Members(selectedFoodIds) \cup listed)
    /\ (ev'.kind = "clearAllSelections" => selectedFoodIds' = <<>>)
  ]_vars

\* C26 witness: selectAllFoods on a list of a record without id and one with
\* id 2, while id 1 of an earlier list was checked: both ids are checked.
C26_Witness ==
  /\ ev.kind = "selectAllFoods"
  /\ foods = <<FoodNoId, FoodBanana>>
  /\ ev.before = <<Num(1)>>
  /\ selectedFoodIds = <<Num(1), Num(2)>>

\* C27: a search, whether it succeeds or fails, leaves the checked-id set
\* as it was, so that the set may hold ids of records that are not in the
\* new result list; getSelectedFoods is the subsequence, in list order, of
\* the records of the current result list whose id is in the set, while
\* getSelectedCount is the number of ids in the set and getSelectedFoodIds
\* holds each of them once.
C27_SearchKeepsCheckedIds ==
  [][ev'.kind \in {"performSearch", "searchNext", "searchError"} =>
       /\ selectedFoodIds' = selectedFoodIds
       /\ LET ids == Members(selectedFoodIds)
              keep == {i \in DOMAIN foods' : foods'[i].id \in ids}
              Nth(n) == CHOOSE i \in keep : Cardinality({j \in keep : j <= i}) = n
          IN /\ Len(getSelectedFoods') = Cardinality(keep)
             /\ \A n \in DOMAIN getSelectedFoods' :
                  getSelectedFoods'[n] = foods'[Nth(n)]
             /\ getSelectedCount' = Cardinality(ids)
             /\ Members(getSelectedFoodIds') = ids
             /\ Len(getSelectedFoodIds') = Cardinality(ids)]_vars

\* C27 witness: after a successful search ids 1 and 2 are checked, the list
\* shows only the record with id 1, and getSelectedFoods is that record.
C27_Witness ==
  /\ ev.kind = "searchNext"
  /\ foods = <<FoodApple>>
  /\ Members(selectedFoodIds) = {Num(1), Num(2)}
  /\ getSelectedFoods = <<FoodApple>>
  /\ getSelectedCount = 2

\* C28 as stated: the table getNutrients computes for the focused record
\* lists, in the order protein, fat, carbohydrate, calories, one entry for
\* each of the four source fields that is present and none for an absent
\* one; each value is the nearest tenth of a gram, or the nearest unit of
\* calories, to the stored per-100g value times the record's serving
\* multiplicand in per-serving mode, and times 1 in per-100g mode.
C28_NutrientsTimesMultiplicand ==
  (\/ ev.kind = "toggleServingMode"
   \/ (ev.kind = "onFoodSelected" /\ ev.index >= 0 /\ ev.index < Len(foods))) =>
    LET none == Facts(UNDEFINED, UNDEFINED, UNDEFINED, UNDEFINED, UNDEFINED)
        nf == IF selectedFood = NULL THEN none
              ELSE IF selectedFood.nutritionFacts = UNDEFINED THEN none
              ELSE selectedFood.nutritionFacts
        sm == IF selectedFood = NULL THEN UNDEFINED
              ELSE selectedFood.servingSizeMultiplicand
        order == << <<"Protein", nf.proteinG, 1000>>,
                    <<"Fat", nf.totalFatG, 1000>>,
                    <<"Carbs", nf.totalCarbohydrateG, 1000>>,
                    <<"Calories", nf.calories, 10000>> >>
        keep == {i \in 1..4 : order[i][2] \notin {UNDEFINED, NULL}}
        Nth(n) == CHOOSE i \in keep : Cardinality({j \in keep : j <= i}) = n
    IN /\ Len(nutrientTableData) = Cardinality(keep)
       /\ \A n \in DOMAIN nutrientTableData :
            LET e == order[Nth(n)]
                d(m) == nutrientTableData[n].value * e[3] - e[2].v * m
            IN /\ nutrientTableData[n].label = e[1]
               /\ IF showPerServing
                            THEN /\ sm \notin {UNDEFINED, NULL}
                                 /\ 2 * d(sm.v) <= e[3] /\ -2 * d(sm.v) <= e[3]
                            ELSE 2 * d(100) <= e[3] /\ -2 * d(100) <= e[3]

\* C28 amended: as above, but in per-serving mode the factor is the record's
\* serving multiplicand only if the record has one that is not zero; a
\* record whose multiplicand is absent or zero is shown with factor 1 in both
\* modes.
C28_NutrientsTimesMultiplicandOrOne ==
  (\/ ev.kind = "toggleServingMode"
   \/ (ev.kind = "onFoodSelected" /\ ev.index >= 0 /\ ev.index < Len(foods))) =>
    LET none == Facts(UNDEFINED, UNDEFINED, UNDEFINED, UNDEFINED, UNDEFINED)
        nf == IF selectedFood = NULL THEN none
              ELSE IF selectedFood.nutritionFacts = UNDEFINED THEN none
              ELSE selectedFood.nutritionFacts
        sm == IF selectedFood = NULL THEN UNDEFINED
              ELSE selectedFood.servingSizeMultiplicand
        order == << <<"Protein", nf.proteinG, 1000>>,
                    <<"Fat", nf.totalFatG, 1000>>,
                    <<"Carbs", nf.totalCarbohydrateG, 1000>>,
                    <<"Calories", nf.calories, 10000>> >>
        keep == {i \in 1..4 : order[i][2] \notin {UNDEFINED, NULL}}
        Nth(n) == CHOOSE i \in keep : Cardinality({j \in keep : j <= i}) = n
    IN /\ Len(nutrientTableData) = Cardinality(keep)
       /\ \A n \in DOMAIN nutrientTableData :
            LET e == order[Nth(n)]
                d(m) == nutrientTableData[n].value * e[3] - e[2].v * m
            IN /\ nutrientTableData[n].label = e[1]
               /\ IF showPerServing /\ sm \notin {UNDEFINED, NULL, Num(0)}
                            THEN 2 * d(sm.v) <= e[3] /\ -2 * d(sm.v) <= e[3]
                            ELSE 2 * d(100) <= e[3] /\ -2 * d(100) <= e[3]

\* C28 witness: the record with totalFatG 12.34 and multiplicand 0.3 is
\* focused in per-serving mode, and the table holds all four entries, fat 3.7.
C28_Witness ==
  /\ ev.kind = "toggleServingMode"
  /\ showPerServing
  /\ selectedFood = FoodApple
  /\ Len(nutrientTableData) = 4
  /\ nutrientTableData[2].label = "Fat" /\ nutrientTableData[2].value = 37

\* C29: toggleServingMode flips the per-serving flag, replaces the nutrient
\* table by the table of the focused record under the new mode and changes
\* nothing else; a toggle that directly follows a toggle restores the mode
\* and a table equal to the one shown before the first of the two.
C29_ToggleTwiceRestoresTable ==
  [][ev'.kind = "toggleServingMode" =>
       /\ showPerServing' = ~showPerServing
       /\ nutrientTableData' = getNutrients(selectedFood, showPerServing')
       /\ UNCHANGED <<searchInputVars, focusVars, selectedFoodIds, isLoading,
                      formVars, isSavingMetadata, originalMetadata, searchReqs,
                      saveReqs, snackBar, uploadVars, saveCalls>>
       /\ ev.kind = "toggleServingMode" =>
            /\ showPerServing' = ev.showPerServing
            /\ nutrientTableData' = ev.nutrientTableData]_vars

\* C30: the step in which a search fails leaves isLoading false, the step
\* in which a metadata save fails leaves isSavingMetadata false, and the
\* step that ends an upload run in which a request failed leaves isUploading
\* false, so that the controls these flags disable are usable again; and,
\* every request being answered, whenever one of the three flags is true it
\* is false at some later time.
C30_FailureLeavesReenterable ==
  /\ [][/\ (ev'.kind = "searchError" => isLoading' = FALSE)
        /\ (ev'.kind = "saveError" => isSavingMetadata' = FALSE)
        /\ ((/\ ev'.kind \in {"nutritionSettled", "productSettled"}
             /\ Len(uploadRuns') < Len(uploadRuns)
             /\ (Rejected(ev'.outcome) \/ ev'.run.warnings # <<>>))
              => isUploading' = FALSE)]_vars
  /\ (isLoading ~> ~isLoading)
  /\ (isSavingMetadata ~> ~isSavingMetadata)
  /\ (isUploading ~> ~isUploading)

\* C30 witness: a search was issued again after a search had failed: the
\* failure notification is still shown while the new request is loading.
C30_Witness ==
  /\ ev.kind = "performSearch" /\ ev.issued
  /\ isLoading /\ Len(searchReqs) = 1
  /\ foods = <<>>
  /\ snackBar = handleError(HttpError(500, FALSE), "Failed to search foods")

\* C31: in every reachable state the focused record and the focused index
\* agree: selectedFood is null, or selectedIndex is in range and selectedFood
\* is foods[selectedIndex], also after the response to a metadata save.
C31_FocusedRecordIsAtFocusedIndex ==
  selectedFood # NULL =>
    /\ selectedIndex >= 0 /\ selectedIndex < Len(foods)
    /\ selectedFood = foods[selectedIndex + 1]

\* C32: the response to a metadata save of one record that arrives while
\* another record is focused leaves the focused record and the snapshot as
\* they were, so that the snapshot still holds the three fields of the
\* focused record.
C32_LateSaveResponseKeepsFocus ==
  [][(/\ ev'.kind = "saveNext"
      /\ selectedFood # NULL
      /\ selectedFood.id # ev'.req.id)
       => /\ selectedFood' = selectedFood
          /\ originalMetadata' = originalMetadata]_vars

\* C33: in every reachable state the nutrient table is the table of the
\* focused record under the current per-serving flag, and empty when no
\* record is focused, also after a failed search.
C33_TableIsTableOfFocusedRecord ==
  nutrientTableData = getNutrients(selectedFood, showPerServing)

\* C34: isLoading is true in every state in which a search request is
\* outstanding, also when of two overlapping searches one has been answered.
C34_LoadingWhileRequestOutstanding ==
  searchReqs # <<>> => isLoading

\* C35: the requests of one uploadImages run carry the same food
\* identifier: the product request sent when the nutrition request of the
\* run has settled carries the identifier the nutrition request carried,
\* also when the foodId input changed while that request was in flight.
C35_RunKeepsItsFoodId ==
  [][(ev'.kind = "nutritionSettled" /\ Len(uploadRuns') = Len(uploadRuns))
       => uploadRuns'[ev'.i].req.foodId = ev'.run.req.description]_vars

\* C36: a call of uploadImages while isUploading is true issues no request;
\* at most one upload run is in flight, and no two requests in flight carry
\* the file of the same slot.
C36_NoRunWhileUploading ==
  [][/\ (ev'.kind = "uploadImages" /\ isUploading) => uploadRuns' = uploadRuns
     /\ Len(uploadRuns') <= 1
     /\ \A i, j \in DOMAIN uploadRuns' :
          (i # j /\ uploadRuns'[i].pc = uploadRuns'[j].pc) =>
            IF uploadRuns'[i].pc = "nutrition"
            THEN uploadRuns'[i].req.nutritionImage
                   # uploadRuns'[j].req.nutritionImage
            ELSE uploadRuns'[i].req.image # uploadRuns'[j].req.image]_vars

====
